---- MODULE Spec2Model ----
(***************************************************************************)
(* doc-to-text: the file processor (strategy chain with fallbacks, output  *)
(* cache) and the OCR pipeline (page split, per-page OCR, aggregation).    *)
(*                                                                         *)
(* The source tree holds two generations of both components.  The variable *)
(* gen selects the one a behaviour runs:                                   *)
(*   "nodewee": unnamed/part_002 (processor), pkg/ocr/extractor.go (OCR)   *)
(*   "local":   pkg/utils/intermediate_manager.go, pkg/ocr/ocr.go          *)
(*                                                                         *)
(* Texts are sequences of one-character strings, so that len() and         *)
(* strings.TrimSpace() are computed and not assumed.                       *)
(***************************************************************************)
EXTENDS Integers, Sequences, FiniteSets, TLC

\* ---- bounds of the model ----
\* longest text a strategy returns
MaxTextLen == 11
\* invocations of ProcessFile on the same input
MaxRuns == 2

\* ---- program constants ----
DefaultMinTextThreshold == 10
DefaultMaxRetries == 3

Generations == {"nodewee", "local"}

\* ---- texts ----
Rep(c, n) == [k \in 1..n |-> c]

Whitespace == {" ", "\n", "\t", "\r"}

RECURSIVE TrimLeft(_)
TrimLeft(s) == IF s # <<>> /\ Head(s) \in Whitespace THEN TrimLeft(Tail(s)) ELSE s

RECURSIVE TrimRight(_)
TrimRight(s) ==
    IF s # <<>> /\ s[Len(s)] \in Whitespace THEN TrimRight(SubSeq(s, 1, Len(s) - 1)) ELSE s

\* strings.TrimSpace
TrimSpace(s) == TrimRight(TrimLeft(s))

Digits == <<"0", "1", "2", "3", "4", "5", "6", "7", "8", "9">>

\* the decimal form of n >= 0, as %d prints it
RECURSIVE Itoa(_)
Itoa(n) == IF n < 10 THEN <<Digits[n + 1]>> ELSE Itoa(n \div 10) \o <<Digits[(n % 10) + 1]>>

\* some occurrence of t in s
Contains(s, t) == \E i \in 1..(Len(s) - Len(t) + 1) : SubSeq(s, i, i + Len(t) - 1) = t

\* ---- errors (package utils: AppError) ----
\* Cause is <<>> (nil) or <<e>>; Message is the sequence of the parts of the
\* message text (a format string and its arguments, joined messages).
NoErr == [Type |-> "nil", Message |-> <<>>, Cause |-> <<>>, Recoverable |-> FALSE]

IsNilErr(e) == e.Type = "nil"

\* a plain Go error (fmt.Errorf, ctx.Err()): anything that is no *AppError
PlainError(message) == [Type |-> "plain", Message |-> message, Cause |-> <<>>, Recoverable |-> FALSE]

IsAppError(e) == e.Type \notin {"nil", "plain"}

CauseOf(e) == IF IsNilErr(e) THEN <<>> ELSE <<e>>

NewError(errorType, message, cause) ==
    [Type |-> errorType, Message |-> message, Cause |-> CauseOf(cause), Recoverable |-> FALSE]

NewValidationError(message, cause) == NewError("validation", message, cause)

NewOCRError(message, cause) == NewError("ocr", message, cause)

NewUnsupportedError(message, cause) == NewError("unsupported", message, cause)

NewNotFoundError(message, cause) == NewError("not_found", message, cause)

\* classifyError looks for key words in the error text
classifyError(e) ==
    CASE e.Message = <<"context deadline exceeded">> -> "timeout"
      [] e.Message = <<"context canceled">> -> "timeout"
      [] e.Message = <<"permission denied">> -> "permission"
      [] e.Message = <<"no such file">> -> "not_found"
      [] e.Message = <<"connection refused">> -> "network"
      [] e.Message = <<"extraction failed">> -> "ocr"
      [] e.Message = <<"convert failed">> -> "conversion"
      [] e.Message = <<"invalid argument">> -> "validation"
      [] OTHER -> "system"

WrapError(err, errorType, message) ==
    IF IsNilErr(err) THEN NoErr
    ELSE IF IsAppError(err) /\ errorType = ""
    THEN [Type |-> err.Type, Message |-> message \o err.Message,
          Cause |-> err.Cause, Recoverable |-> FALSE]
    ELSE [Type |-> IF errorType = "" THEN classifyError(err) ELSE errorType,
          Message |-> message, Cause |-> <<err>>, Recoverable |-> FALSE]

IsRecoverable(err) ==
    IF IsAppError(err) THEN err.Recoverable
    ELSE classifyError(err) \in {"timeout", "network"}

\* GetErrorType
GetErrorType(err) == IF IsAppError(err) THEN err.Type ELSE classifyError(err)

\* ErrorHandler.Handle with the strategies the processor registers (io, timeout)
Handle(err, attemptRecovery) ==
    IF IsNilErr(err) THEN NoErr
    ELSE IF attemptRecovery /\ IsRecoverable(err)
            /\ (IF IsAppError(err) THEN err.Type ELSE classifyError(err)) \in {"io", "timeout"}
    THEN NoErr
    ELSE err

\* the error types (ErrorType)
ErrorTypes ==
    {"validation", "io", "conversion", "ocr", "system", "network", "timeout", "permission",
     "not_found", "unsupported"}

\* what a registered recovery strategy returns: nil ("ok") or an error ("fail")
HookOutcomes == {"none", "ok", "fail"}

\* the error types the strategies are registered for
HookTypes == {"io", "timeout", "network"}

\* DefaultFileProcessor.setupErrorRecovery
ProcessorHooks == [t \in ErrorTypes |-> IF t \in {"io", "timeout"} THEN "ok" ELSE "none"]

\* ErrorHandler.Handle with the strategies hooks: the error it returns and
\* whether a strategy ran
HandleWith(err, attemptRecovery, hooks) ==
    IF IsNilErr(err) THEN [err |-> NoErr, ran |-> FALSE]
    ELSE IF attemptRecovery /\ IsRecoverable(err) /\ hooks[GetErrorType(err)] # "none"
    THEN [err |-> IF hooks[GetErrorType(err)] = "ok" THEN NoErr ELSE err, ran |-> TRUE]
    ELSE [err |-> err, ran |-> FALSE]

\* The loop of WithRetry from attempt on: the attempts after which a recovery
\* strategy ran.  Whatever Handle returns, the loop goes to the next attempt.
RECURSIVE HooksFrom(_, _, _, _)
HooksFrom(fn, attempt, maxAttempts, hooks) ==
    IF attempt > maxAttempts THEN <<>>
    ELSE IF IsNilErr(fn[attempt]) THEN <<>>
    ELSE IF ~IsRecoverable(fn[attempt]) THEN <<>>
    ELSE (IF attempt < maxAttempts /\ HandleWith(fn[attempt], TRUE, hooks).ran
          THEN <<attempt>> ELSE <<>>)
         \o HooksFrom(fn, attempt + 1, maxAttempts, hooks)

\* WithRetry(fn, maxAttempts, eh): fn[a] is what the a-th call of fn returns.
\* The result is the error returned and the number of calls made.
RECURSIVE RetryFrom(_, _, _)
RetryFrom(fn, attempt, maxAttempts) ==
    IF attempt > maxAttempts
    THEN [err |-> WrapError(fn[maxAttempts], "", <<"operation failed after attempts", maxAttempts>>),
          calls |-> maxAttempts]
    ELSE IF IsNilErr(fn[attempt]) THEN [err |-> NoErr, calls |-> attempt]
    ELSE IF ~IsRecoverable(fn[attempt]) THEN [err |-> fn[attempt], calls |-> attempt]
    ELSE RetryFrom(fn, attempt + 1, maxAttempts)

\* an executor that allows one attempt more than its budget
WithRetryOneMore(fn, maxAttempts) == RetryFrom(fn, 1, maxAttempts + 1)

WithRetry(fn, maxAttempts) == RetryFrom(fn, 1, maxAttempts)

\* SimpleErrorHandler.WithRetrySimple: attempts 0..maxRetries, whatever the error
RECURSIVE SimpleRetryFrom(_, _, _)
SimpleRetryFrom(fn, attempt, maxRetries) ==
    IF attempt > maxRetries THEN [err |-> fn[maxRetries + 1], calls |-> maxRetries + 1]
    ELSE IF IsNilErr(fn[attempt + 1]) THEN [err |-> NoErr, calls |-> attempt + 1]
    ELSE SimpleRetryFrom(fn, attempt + 1, maxRetries)

WithRetrySimple(fn, maxRetries) == SimpleRetryFrom(fn, 0, maxRetries)

\* ctx.Err() of a cancelled context
ContextCanceled == PlainError(<<"context canceled">>)

\* the context is never cancelled
NeverCancelled == [phase |-> "never", at |-> 0]

\* The context c is done when call a of the operation is about to start: it was
\* cancelled during an earlier call or during the pause after it (at = 0: before
\* the first call)
DoneBeforeCall(c, a) == c.phase # "never" /\ c.at < a

\* the context c is done at some moment of the pause that follows call a
DoneAfterCall(c, a) == c.phase # "never" /\ c.at <= a

\* What the calls of the operation return under context c: a call that is running
\* when the context is cancelled, or starts later, returns ctx.Err()
UnderContext(fn, c) ==
    [a \in DOMAIN fn |->
        IF DoneBeforeCall(c, a) \/ (c.phase = "call" /\ c.at = a) THEN ContextCanceled ELSE fn[a]]

\* SimpleErrorHandler.WithRetryContext: the context is looked at before every
\* call and during every pause
RECURSIVE WithRetryContext(_, _, _, _, _)
WithRetryContext(fn, c, attempt, maxRetries, sleeps) ==
    IF attempt > maxRetries
    THEN [err |-> UnderContext(fn, c)[maxRetries + 1], calls |-> maxRetries + 1, sleeps |-> sleeps]
    ELSE IF DoneBeforeCall(c, attempt + 1)
    THEN [err |-> ContextCanceled, calls |-> attempt, sleeps |-> sleeps]
    ELSE IF IsNilErr(UnderContext(fn, c)[attempt + 1])
    THEN [err |-> NoErr, calls |-> attempt + 1, sleeps |-> sleeps]
    ELSE IF attempt < maxRetries /\ DoneAfterCall(c, attempt + 1)
    THEN [err |-> ContextCanceled, calls |-> attempt + 1, sleeps |-> sleeps]
    ELSE WithRetryContext(fn, c, attempt + 1, maxRetries,
                          IF attempt < maxRetries THEN sleeps + 1 ELSE sleeps)

\* ---- configuration ----
Extensions == {"txt", "html", "epub", "pdf", "png", "docx"}

ContentTypes == {"text", "image"}

OCRStrategyInteractive == "interactive"

OCRStrategies == {OCRStrategyInteractive, "llm-caller", "surya_ocr"}

\* Validate accepts every MinTextThreshold >= 0
MinTextThresholds == {0, DefaultMinTextThreshold \div 2, DefaultMinTextThreshold}

Configs ==
    [Ext : Extensions, ContentType : ContentTypes, OCRStrategy : OCRStrategies,
     MinTextThreshold : MinTextThresholds, SkipExisting : BOOLEAN]

\* ---- the extractor factory ----
\* strings.ToLower on the extensions of the model
ToLower(ext) ==
    CASE ext = "PDF" -> "pdf"
      [] ext = "TXT" -> "txt"
      [] ext = "HTML" -> "html"
      [] ext = "JPG" -> "jpg"
      [] ext = "Epub" -> "epub"
      [] OTHER -> ext

\* a factory that tries OCR before the converter for a text-first PDF
CreateExtractorOCRFirst(cfg) ==
    LET ext == ToLower(cfg.Ext)
    IN  CASE ext \in {"txt", "md", "json", "xml"} -> <<"text">>
          [] ext \in {"html", "htm", "mhtml", "mht"} -> <<"html", "calibre">>
          [] ext \in {"epub", "mobi"} -> <<"ebook">>
          [] ext = "pdf" ->
                IF cfg.ContentType = "text" THEN <<"ocr", "calibre">> ELSE <<"ocr">>
          [] ext \in {"jpg", "jpeg", "png", "gif", "bmp"} -> <<"ocr">>
          [] OTHER -> <<"ocr", "calibre">>

CreateExtractorWithFallbacks(cfg) ==
    LET ext == ToLower(cfg.Ext)
    IN  CASE ext \in {"txt", "md", "json", "xml"} -> <<"text">>
          [] ext \in {"html", "htm", "mhtml", "mht"} -> <<"html", "calibre">>
          [] ext \in {"epub", "mobi"} -> <<"ebook">>
          [] ext = "pdf" ->
                IF cfg.ContentType = "text" THEN <<"calibre", "ocr">> ELSE <<"ocr">>
          [] ext \in {"jpg", "jpeg", "png", "gif", "bmp"} -> <<"ocr">>
          [] OTHER -> <<"ocr", "calibre">>

\* what CreateExtractorWithFallbacks returns: the chain and the error
CreateChain(cfg) ==
    LET chain == CreateExtractorWithFallbacks(cfg)
    IN  IF Len(chain) = 0
        THEN [extractors |-> <<>>, err |-> PlainError(<<"no suitable extractors found for file type">>)]
        ELSE [extractors |-> chain, err |-> NoErr]

\* the extension sets of package utils
TextExtensions ==
    {"txt", "md", "markdown", "xml", "json", "csv", "py", "js", "ts", "c", "cpp", "h", "java", "sh"}

ImageExtensions == {"jpg", "jpeg", "png", "gif", "bmp", "svg", "webp", "tiff", "tif"}

EbookExtensions == {"epub", "mobi"}

HTMLExtensions == {"html", "htm", "mhtml", "mht"}

\* the extensions of the files the factory is asked about
FileExtensions ==
    TextExtensions \cup ImageExtensions \cup EbookExtensions \cup HTMLExtensions
        \cup {"pdf", "docx", "doc", "rtf", "zip", "", "PDF", "TXT", "HTML", "JPG", "Epub"}

\* ---- the strategies, as the processor sees them: Extract returns (text, err) ----
Out(text, err) == [text |-> text, err |-> err]

\* the lengths of the texts a strategy returns: empty, below, at and above the
\* default threshold
TextLens == {0, DefaultMinTextThreshold \div 2, DefaultMinTextThreshold - 1,
             DefaultMinTextThreshold, MaxTextLen}

\* TextFileExtractor.Extract: the file's content as it is, or a read error
TextFileExtract == {Out(Rep("t", n), NoErr) : n \in TextLens}
                       \cup {Out(<<>>, PlainError(<<"error reading text file">>))}

\* HTMLExtractor.Extract: the parsed text, of any length, or a read/parse error
HTMLExtract == {Out(Rep("h", n), NoErr) : n \in TextLens}
                   \cup {Out(<<>>, PlainError(<<"failed to parse HTML">>))}

\* CalibreFallbackExtractor.Extract: the trimmed output of ebook-convert when it is
\* not shorter than the threshold, an error otherwise
CalibreExtract(cfg) ==
    {Out(Rep("c", n), NoErr) : n \in {m \in TextLens : m >= cfg.MinTextThreshold}}
        \cup {Out(<<>>, PlainError(<<"extracted text is too short">>))}

\* EbookExtractor.Extract: as Calibre
EbookExtract(cfg) ==
    {Out(Rep("e", n), NoErr) : n \in {m \in TextLens : m >= cfg.MinTextThreshold}}
        \cup {Out(<<>>, PlainError(<<"calibre e-book conversion failed">>))}

\* OCRExtractor.Extract: a text not shorter than the threshold, or an OCR error
OCRExtract(cfg) ==
    {Out(Rep("o", n), NoErr) : n \in {m \in TextLens : m >= cfg.MinTextThreshold}}
        \cup {Out(<<>>, NewOCRError(<<"no text extracted from any page">>, NoErr))}

Extract(name, cfg) ==
    CASE name = "text" -> TextFileExtract
      [] name = "html" -> HTMLExtract
      [] name = "calibre" -> CalibreExtract(cfg)
      [] name = "ebook" -> EbookExtract(cfg)
      [] name = "ocr" -> OCRExtract(cfg)

\* ---- ExtractionResult ----
NilResult ==
    [IsNil |-> TRUE, Text |-> <<>>, ExtractorUsed |-> "", Error |-> <<>>,
     FallbackUsed |-> FALSE, AttemptedExtractors |-> <<>>]

ExtractionResult(text, extractorUsed, error, fallbackUsed, attemptedExtractors) ==
    [IsNil |-> FALSE, Text |-> text, ExtractorUsed |-> extractorUsed, Error |-> error,
     FallbackUsed |-> fallbackUsed, AttemptedExtractors |-> attemptedExtractors]

Ret(result, err) == [result |-> result, err |-> err]

(***************************************************************************)
(* The OCR pipeline: the functions of OCRExtractor                         *)
(*                                                                         *)
(* A pages directory is a sequence: entry i is the state of page_i.pdf,    *)
(* "missing", "tiny" (at most 100 bytes) or "ok".  A document d is what    *)
(* the external tools do with the input: d.n pages, d.out[p] what the      *)
(* engine returns for page p, d.direct whether the engine supports direct  *)
(* PDF processing, d.rasterOK whether the page-to-image conversion works,  *)
(* d.engineOK whether an engine can be selected.                           *)
(***************************************************************************)
\* countPages (pkg/ocr/ocr.go): the files counted from page i on
RECURSIVE countPagesFrom(_, _)
countPagesFrom(pd, i) ==
    IF i > Len(pd) THEN 0
    ELSE IF pd[i] # "missing" THEN 1 + countPagesFrom(pd, i + 1)
    ELSE 0

countPages(pd) == countPagesFrom(pd, 1)

\* countExistingPages (pkg/ocr/extractor.go): the files counted from page i on
RECURSIVE countExistingPagesFrom(_, _)
countExistingPagesFrom(pd, i) ==
    IF i > Len(pd) THEN 0
    ELSE IF pd[i] # "missing"
    THEN (IF pd[i] = "ok" THEN 1 ELSE 0) + countExistingPagesFrom(pd, i + 1)
    ELSE 0

countExistingPages(pd) == countExistingPagesFrom(pd, 1)

\* "--- Page %d ---\n"
PageMarker(pageNum) ==
    <<"-", "-", "-", " ", "P", "a", "g", "e", " ">> \o Itoa(pageNum)
        \o <<" ", "-", "-", "-", "\n">>

\* what a page step yields: the text or the error, whether the engine was
\* invoked, whether the page was rasterized, and the page text written (<<>>: none)
PageResult(text, err, engine, raster, write) ==
    [text |-> text, err |-> err, engine |-> engine, raster |-> raster, write |-> write]

\* a page step that invokes the engine whatever the rasterization did
processPageEngineAnyway(d, pageNum, cached, pagePDF) ==
    IF cached # <<>> THEN PageResult(cached[1], NoErr, FALSE, FALSE, <<>>)
    ELSE IF pagePDF = "missing"
    THEN PageResult(<<>>, PlainError(<<"page PDF not found">>), FALSE, FALSE, <<>>)
    ELSE IF ~IsNilErr(d.out[pageNum].err)
    THEN PageResult(<<>>, WrapError(d.out[pageNum].err, "ocr",
                                    <<"failed to extract text from page", pageNum>>),
                    TRUE, ~d.direct, <<>>)
    ELSE PageResult(d.out[pageNum].text, NoErr, TRUE, ~d.direct,
                    IF d.out[pageNum].text # <<>> THEN <<d.out[pageNum].text>> ELSE <<>>)

\* a page step that does not look for the text file of the page
processPageWithoutResume(d, pageNum, cached, pagePDF) ==
    IF pagePDF = "missing"
    THEN PageResult(<<>>, PlainError(<<"page PDF not found">>), FALSE, FALSE, <<>>)
    ELSE IF ~IsNilErr(d.out[pageNum].err)
    THEN PageResult(<<>>, d.out[pageNum].err, TRUE, ~d.direct, <<>>)
    ELSE PageResult(d.out[pageNum].text, NoErr, TRUE, ~d.direct, <<d.out[pageNum].text>>)

\* processPageWithProgress (pkg/ocr/ocr.go); cached is <<>> or <<content>>
processPageWithProgress(d, pageNum, cached, pagePDF) ==
    IF cached # <<>> THEN PageResult(cached[1], NoErr, FALSE, FALSE, <<>>)
    ELSE IF pagePDF = "missing"
    THEN PageResult(<<>>, PlainError(<<"page PDF not found">>), FALSE, FALSE, <<>>)
    ELSE IF ~d.direct /\ ~d.rasterOK
    THEN PageResult(<<>>, WrapError(WrapError(PlainError(<<"exit status 1">>), "conversion",
                                              <<"failed to convert PDF to image">>),
                                    "conversion", <<"failed to convert page to image", pageNum>>),
                    FALSE, TRUE, <<>>)
    ELSE IF ~IsNilErr(d.out[pageNum].err)
    THEN PageResult(<<>>, WrapError(d.out[pageNum].err, "ocr",
                                    <<"failed to extract text from page", pageNum>>),
                    TRUE, ~d.direct, <<>>)
    ELSE PageResult(d.out[pageNum].text, NoErr, TRUE, ~d.direct,
                    IF d.out[pageNum].text # <<>> THEN <<d.out[pageNum].text>> ELSE <<>>)

\* a loop body that drops the text of the page
appendPageDropped(text, pageNum, r) == text

\* the loop body of processPDFByPages (pkg/ocr/ocr.go): the aggregate after the page
appendPageLocal(text, pageNum, r) ==
    IF ~IsNilErr(r.err) THEN text
    ELSE IF r.text # <<>> THEN text \o PageMarker(pageNum) \o r.text \o <<"\n", "\n">>
    ELSE text

\* processPDFByPages after the loop, then Extract (pkg/ocr/ocr.go): text and error
finishLocal(cfg, allText) ==
    LET finalText == TrimSpace(allText)
    IN  IF finalText = <<>>
        THEN Out(<<>>, NewOCRError(<<"no text extracted from any page">>, NoErr))
        ELSE IF Len(finalText) < cfg.MinTextThreshold
        THEN Out(<<>>, PlainError(<<"extracted text too short">>))
        ELSE Out(finalText, NoErr)

\* processPagePDFWithOCR (pkg/ocr/extractor.go): the trimmed text of the engine
processPagePDFWithOCR(d, pageNum) ==
    IF ~IsNilErr(d.out[pageNum].err)
    THEN Out(<<>>, WrapError(d.out[pageNum].err, "ocr", <<"OCR failed for page PDF", pageNum>>))
    ELSE Out(TrimSpace(d.out[pageNum].text), NoErr)

\* processPageWithRetry (pkg/ocr/extractor.go)
processPageWithRetry(d, pageNum) ==
    LET o == processPagePDFWithOCR(d, pageNum)
        fnErr == IF ~IsNilErr(o.err)
                 THEN WrapError(o.err, "ocr", <<"OCR failed for page", pageNum>>)
                 ELSE IF Len(TrimSpace(o.text)) = 0
                 THEN NewOCRError(<<"no text found in page", pageNum>>, NoErr)
                 ELSE NoErr
        r == WithRetry([a \in 1..2 |-> fnErr], 2)
    IN  [text |-> IF IsNilErr(r.err) THEN o.text ELSE <<>>, err |-> r.err, calls |-> r.calls]

\* one iteration of the loop of extractFromPDFViaSinglePages (pkg/ocr/extractor.go);
\* text is what the iteration appends to the aggregate
pageStepNodewee(d, pageNum, cached, pagePDF) ==
    IF cached # <<>> THEN PageResult(cached[1] \o <<"\n">>, NoErr, FALSE, FALSE, <<>>)
    ELSE IF pagePDF = "missing"
    THEN PageResult(<<>>, NewNotFoundError(<<"single-page PDF not found">>, NoErr), FALSE, FALSE, <<>>)
    ELSE LET r == processPageWithRetry(d, pageNum)
             formattedPageText == PageMarker(pageNum) \o r.text
         IN  IF ~IsNilErr(r.err) THEN PageResult(<<>>, r.err, TRUE, FALSE, <<>>)
             ELSE PageResult(formattedPageText \o <<"\n">>, NoErr, TRUE, FALSE,
                             <<formattedPageText>>)

appendPageNodewee(allText, pageNum, r) == IF ~IsNilErr(r.err) THEN allText ELSE allText \o r.text

\* extractAndValidateText (pkg/ocr/extractor.go)
extractAndValidateText(cfg, text) ==
    IF Len(TrimSpace(text)) < cfg.MinTextThreshold
    THEN Out(<<>>, NewOCRError(<<"extracted text below minimum threshold">>, NoErr))
    ELSE Out(text, NoErr)

(***************************************************************************)
(* The file processor: DefaultFileProcessor.ProcessFile                    *)
(***************************************************************************)
VARIABLES
    gen,          \* the generation of the code that runs
    config,       \* the configuration the processor was built with
    outputPath,   \* the -o flag of the command line ("" when not given)
    inputFile,    \* the input file: "ok" or "missing"; it never changes
    outFile,      \* what is at the output path: [exists, isDir, content]
    run,          \* number of the current invocation of ProcessFile
    pc,           \* position of the current invocation
    extractors,   \* the chain of the current invocation
    loop,         \* locals of attemptExtractionWithFallbacks
    loopRet,      \* <<>> or <<what attemptExtractionWithFallbacks returned>>
    returns,      \* what ProcessFile returned: the previous invocation (if any)
                  \* and, once it has returned, the current one
    invoked       \* history: the calls of Extract of the current invocation, in order

procVars ==
    <<gen, config, outputPath, inputFile, outFile, run, pc, extractors, loop, loopRet,
      returns, invoked>>

\* the state of the OCR pipeline (gen and config are shared with the file processor)
VARIABLES
    doc,          \* the input document as the external tools see it; it never changes
    pagesDir,     \* the pages directory: entry i is the state of page_i.pdf
    pageTxt,      \* the page text files: entry i is <<>> or <<content>>
    textFile,     \* the final text file: <<>> or <<content>>
    orun,         \* number of the current run of OCRExtractor.Extract
    opc,          \* position of the current run: "start", "pages" or "done"
    totalPages,   \* local of the page loop
    pageNum,      \* local of the page loop
    allText,      \* local of the page loop: the aggregate
    ocrRet,       \* <<>> or <<what Extract returned>>
    ocrData,      \* the OCR data file of the document: <<>> or <<content>>
    textMade,     \* history: <<>> or <<the page loop of the run that wrote the final text file>>
    start,        \* history: the files as the current run found them
    hist          \* history: what the current run did

ocrVars ==
    <<doc, pagesDir, pageTxt, textFile, orun, opc, totalPages, pageNum, allText, ocrRet,
      ocrData, textMade, start, hist>>

\* the state of the page counters
VARIABLES
    dir,          \* a pages directory
    counted       \* <<>> or <<the count returned>>

countVars == <<dir, counted>>

\* the state of a retry executor
VARIABLES
    rexec,        \* the executor called: "WithRetry" or "WithRetrySimple"
    rbudget,      \* maxAttempts of WithRetry, maxRetries of WithRetrySimple
    rfn,          \* the operation: rfn[a] is what its a-th call returns
    rret,         \* <<>> or <<[err, calls, sleeps]>>: the error returned, the calls
                  \* made and the backoff sleeps waited out
    rcancel,      \* when the context is cancelled: [phase, at]
    rhooks        \* the recovery strategies of the ErrorHandler: for every error
                  \* type "none", or what the registered strategy returns

retryVars == <<rexec, rbudget, rfn, rret, rcancel, rhooks>>

\* the state of the extractor factory (config is shared)
VARIABLES
    built         \* <<>> or <<what CreateExtractorWithFallbacks returned>>

chainVars == <<built>>

\* the state of the caches of the inputs of one directory
VARIABLES
    fcontent,     \* the content of every input file; the environment changes it
    foutput,      \* the file at the output path: <<>> or <<[text, from]>>
    fmanager,     \* the file manager of the extractor instance: <<>> or <<its fingerprint>>
    fwork,        \* for every fingerprint, the text kept under its base directory
    fret,         \* <<>> or <<what the last call returned>>
    fcalls        \* number of calls and changes so far

fingerVars == <<fcontent, foutput, fmanager, fwork, fret, fcalls>>

\* the state of a scratch-file manager that several goroutines call
VARIABLES
    mu,           \* the mutex of the manager: "free" or the goroutine that holds it
    ctracked,     \* the manager's list of scratch paths (tempFiles and tempDirs)
    cfns,         \* the manager's list of cleanup callbacks
    cpc,          \* the position of every goroutine
    cancelled,    \* whether the context of WithContext is done
    cbefore,      \* history: <<>> or <<what was listed when the first cleanup was called>>
    cran,         \* history: how many times each callback ran
    cremoved      \* history: how many times each scratch path was removed

lockVars == <<mu, ctracked, cfns, cpc, cancelled, cbefore, cran, cremoved>>

\* the state of a scratch-file manager and of the run it serves
VARIABLES
    mkind,        \* the manager of the run: "FileManager", "SimpleTempManager" or "ResourceManager"
    strat,        \* the strategy the run calls: the file of its Extract, or "none"
    fsys,         \* the file system: the set of the paths that exist
    tempFiles,    \* the manager's list of scratch files
    tempDirs,     \* the manager's list of scratch directories
    cleanupFns,   \* the manager's callbacks: entry i is what callback i returns
    stratFiles,   \* the list of scratch files of the strategy's own manager
    spc,          \* position of the run: "idle", "fn" (inside WithCleanup) or "done"
    fnRet,        \* <<>> or <<what the function given to WithCleanup returned>>
    sret,         \* <<>> or <<what WithCleanup returned>>
    made,         \* history: the scratch paths created, in order
    shist         \* history: what the cleanups did

scratchVars ==
    <<mkind, strat, fsys, tempFiles, tempDirs, cleanupFns, stratFiles, spc, fnRet, sret,
      made, shist>>

\* the state of the OCR engines called on their own
VARIABLES
    results,      \* the results.json the engine wrote: files, their pages, their text lines
    parsed,       \* <<>> or <<what parseOCRResults returned>>
    cli,          \* flags, environment and answers of the user; they never change
    lcfg,         \* the configuration: [OCRStrategy, LLMTemplate]
    lengine,      \* the engine selected ("" before the selection)
    lpc,          \* position of the command: "start", "configured", "selected" or "done"
    ltool,        \* history: the external tools started, with the template passed
    lret,         \* <<>> or <<the error the command ended with>>
    gsRun,        \* what the page splitter does when run: [found, exit, message, produced]
    splitDir,     \* the pages directory as the split finds it
    splitRet      \* <<>> or <<[count, err, dir]>>: what the split returned and
                  \* the pages directory it left

\* the state of the persistent paths of a document
VARIABLES
    pinput,       \* the path of the input file, as a sequence of path elements
    pfinger,      \* the fingerprint (MD5) of the input file
    pbase,        \* baseDir of the manager of the current run (<<>>: no manager yet)
    prun,         \* number of the current run
    resolved      \* history: the paths resolved so far: [name, path]

pathVars == <<pinput, pfinger, pbase, prun, resolved>>

engineVars ==
    <<results, parsed, cli, lcfg, lengine, lpc, ltool, lret, gsRun, splitDir, splitRet,
      pathVars>>

\* no output yet
NoOutput == [exists |-> FALSE, isDir |-> FALSE, content |-> <<>>]

\* a file with this content at the output path
OutputWith(text) == [exists |-> TRUE, isDir |-> FALSE, content |-> text]

\* what the output path can hold when the command starts: nothing, the text
\* of an earlier invocation, or a directory
OutputStates ==
    {NoOutput, OutputWith(Rep("x", DefaultMinTextThreshold)),
     [exists |-> TRUE, isDir |-> TRUE, content |-> <<>>]}

LoopInit ==
    [i |-> 1, text |-> <<>>, lastError |-> NoErr, extractorUsed |-> "",
     attemptedExtractors |-> <<>>, fallbackUsed |-> FALSE]

\* AppHandler.determineOutputPath: the -o flag, or the path under the MD5 directory
determineOutputPath(flag) == IF flag # "" THEN flag ELSE "md5/text.txt"

InitProc ==
    /\ gen \in Generations
    /\ config \in Configs
    /\ outputPath \in {"", "out.txt"}
    /\ inputFile \in {"ok", "missing"}
    /\ outFile \in OutputStates
    /\ run = 1
    /\ pc = "idle"
    /\ extractors = <<>>
    /\ loop = LoopInit
    /\ loopRet = <<>>
    /\ returns = <<>>
    /\ invoked = <<>>

validateInputFile(f) ==
    IF f = "missing" THEN NewNotFoundError(<<"input file not found">>, PlainError(<<"no such file">>))
    ELSE NoErr

\* a loader that never finds the output of an earlier invocation
loadExistingResultNever(f) ==
    Ret(NilResult, NewNotFoundError(<<"existing result not found">>, NoErr))

loadExistingResult(f) ==
    IF f.exists /\ f.isDir
    THEN Ret(NilResult, WrapError(PlainError(<<"is a directory">>), "io",
                                  <<"failed to read existing output file">>))
    ELSE IF f.exists
    THEN Ret(ExtractionResult(f.content, "cached", <<>>, FALSE, <<>>), NoErr)
    ELSE Ret(NilResult, NewNotFoundError(<<"existing result not found">>, NoErr))

\* ProcessFile up to the call of attemptExtractionWithFallbacks
ProcessFile ==
    /\ pc = "idle"
    /\ LET outputFile == determineOutputPath(outputPath)
           verr == validateInputFile(inputFile)
           skip == IF gen = "nodewee" THEN config.SkipExisting /\ outputFile # ""
                   ELSE config.SkipExisting
           existing == loadExistingResult(outFile)
           chain == CreateExtractorWithFallbacks(config)
       IN  IF ~IsNilErr(verr)
           THEN /\ returns' = Append(returns,
                        Ret(NilResult, WrapError(verr, "validation", <<"input file validation failed">>)))
                /\ pc' = "done"
                /\ UNCHANGED <<extractors, loop>>
           ELSE IF skip /\ IsNilErr(existing.err)
           THEN /\ returns' = Append(returns, existing)
                /\ pc' = "done"
                /\ UNCHANGED <<extractors, loop>>
           ELSE IF Len(chain) = 0
           THEN /\ returns' = Append(returns,
                        Ret(NilResult, WrapError(PlainError(<<"no suitable extractors found">>),
                                                 "unsupported", <<"no suitable extractor found">>)))
                /\ pc' = "done"
                /\ UNCHANGED <<extractors, loop>>
           ELSE /\ extractors' = chain
                /\ loop' = LoopInit
                /\ pc' = "loop"
                /\ UNCHANGED returns
    /\ UNCHANGED <<ocrVars, countVars, chainVars, fingerVars, lockVars, retryVars, scratchVars, engineVars>>
    /\ UNCHANGED <<gen, config, outputPath, inputFile, outFile, run, loopRet, invoked>>

\* the calls of Extract one WithRetry makes
Calls(name, out, n) == [k \in 1..n |-> [name |-> name, out |-> out]]

\* One iteration of the loop of attemptExtractionWithFallbacks (unnamed/part_002)
AttemptNodewee ==
    /\ gen = "nodewee"
    /\ pc = "loop"
    /\ loop.i <= Len(extractors)
    /\ LET extractorName == extractors[loop.i]
           attempted == Append(loop.attemptedExtractors, extractorName)
           fallbackUsed == loop.fallbackUsed \/ loop.i > 1
           isPDF == config.Ext = "pdf"
           userChosenOCR == config.OCRStrategy # OCRStrategyInteractive
       IN  \E out \in Extract(extractorName, config) :
             LET fnErr == IF ~IsNilErr(out.err)
                          THEN WrapError(out.err, "ocr", <<"extractor failed", extractorName>>)
                          ELSE IF Len(out.text) < config.MinTextThreshold
                          THEN NewValidationError(<<"extracted text below minimum threshold">>, NoErr)
                          ELSE NoErr
                 r == WithRetry([a \in 1..DefaultMaxRetries |-> fnErr], DefaultMaxRetries)
                 text == IF IsNilErr(r.err) THEN out.text ELSE loop.text
             IN  /\ invoked' = invoked \o Calls(extractorName, out, r.calls)
                 /\ IF ~IsNilErr(r.err)
                    THEN IF isPDF /\ config.ContentType = "image" /\ extractorName = "ocr"
                         THEN /\ loopRet' = <<Ret(ExtractionResult(<<>>, "",
                                                <<"OCR extraction failed for image-based PDF", r.err>>,
                                                FALSE, attempted), r.err)>>
                              /\ pc' = "returned"
                              /\ loop' = [loop EXCEPT !.attemptedExtractors = attempted,
                                             !.fallbackUsed = fallbackUsed, !.lastError = r.err]
                         ELSE IF userChosenOCR /\ extractorName = "ocr"
                         THEN /\ loopRet' = <<Ret(ExtractionResult(<<>>, "",
                                                <<"OCR extraction failed for chosen strategy", r.err>>,
                                                FALSE, attempted), r.err)>>
                              /\ pc' = "returned"
                              /\ loop' = [loop EXCEPT !.attemptedExtractors = attempted,
                                             !.fallbackUsed = fallbackUsed, !.lastError = r.err]
                         ELSE /\ loop' = [loop EXCEPT !.attemptedExtractors = attempted,
                                             !.fallbackUsed = fallbackUsed, !.lastError = r.err,
                                             !.i = loop.i + 1]
                              /\ UNCHANGED <<pc, loopRet>>
                    ELSE /\ loop' = [loop EXCEPT !.attemptedExtractors = attempted,
                                        !.fallbackUsed = fallbackUsed, !.text = text,
                                        !.extractorUsed = extractorName]
                         /\ pc' = "after"
                         /\ UNCHANGED loopRet
    /\ UNCHANGED <<ocrVars, countVars, chainVars, fingerVars, lockVars, retryVars, scratchVars, engineVars>>
    /\ UNCHANGED <<gen, config, outputPath, inputFile, outFile, run, extractors, returns>>

\* The code after the loop of attemptExtractionWithFallbacks (unnamed/part_002)
AfterLoopNodewee ==
    /\ gen = "nodewee"
    /\ pc = "after" \/ (pc = "loop" /\ loop.i > Len(extractors))
    /\ loopRet' =
         IF loop.text = <<>> /\ ~IsNilErr(loop.lastError)
         THEN <<Ret(ExtractionResult(<<>>, "", <<"all extractors failed, last error", loop.lastError>>,
                                     loop.fallbackUsed, loop.attemptedExtractors), loop.lastError)>>
         ELSE <<Ret(ExtractionResult(loop.text, loop.extractorUsed, <<>>, loop.fallbackUsed,
                                     loop.attemptedExtractors), NoErr)>>
    /\ pc' = "returned"
    /\ UNCHANGED <<ocrVars, countVars, chainVars, fingerVars, lockVars, retryVars, scratchVars, engineVars>>
    /\ UNCHANGED <<gen, config, outputPath, inputFile, outFile, run, extractors, loop, returns,
                   invoked>>

\* extractWithRetry (pkg/utils/intermediate_manager.go): the text and the error
extractWithRetry(extractorName, out) ==
    LET fnErr == IF ~IsNilErr(out.err)
                 THEN WrapError(out.err, "ocr", <<"extractor failed", extractorName>>)
                 ELSE NoErr
        r == WithRetry([a \in 1..DefaultMaxRetries |-> fnErr], DefaultMaxRetries)
    IN  [text |-> IF IsNilErr(r.err) THEN out.text ELSE <<>>, err |-> r.err, calls |-> r.calls]

\* One iteration of the loop of attemptExtractionWithFallbacks
\* (pkg/utils/intermediate_manager.go)
AttemptLocal ==
    /\ gen = "local"
    /\ pc = "loop"
    /\ loop.i <= Len(extractors)
    /\ LET extractorName == extractors[loop.i]
           attempted == Append(loop.attemptedExtractors, extractorName)
           fallbackUsed == loop.fallbackUsed \/ loop.i > 1
       IN  \E out \in Extract(extractorName, config) :
             LET r == extractWithRetry(extractorName, out)
             IN  /\ invoked' = invoked \o Calls(extractorName, out, r.calls)
                 /\ IF ~IsNilErr(r.err)
                    THEN /\ loop' = [loop EXCEPT !.attemptedExtractors = attempted,
                                        !.fallbackUsed = fallbackUsed, !.lastError = r.err,
                                        !.i = loop.i + 1]
                         /\ UNCHANGED <<pc, loopRet>>
                    ELSE IF Len(r.text) < config.MinTextThreshold
                    THEN /\ loop' = [loop EXCEPT !.attemptedExtractors = attempted,
                                        !.fallbackUsed = fallbackUsed,
                                        !.lastError = NewValidationError(<<"extracted text too short">>, NoErr),
                                        !.i = loop.i + 1]
                         /\ UNCHANGED <<pc, loopRet>>
                    ELSE /\ loop' = [loop EXCEPT !.attemptedExtractors = attempted,
                                        !.fallbackUsed = fallbackUsed]
                         /\ loopRet' = <<Ret(ExtractionResult(r.text, extractorName, <<>>,
                                                              fallbackUsed, attempted), NoErr)>>
                         /\ pc' = "returned"
    /\ UNCHANGED <<ocrVars, countVars, chainVars, fingerVars, lockVars, retryVars, scratchVars, engineVars>>
    /\ UNCHANGED <<gen, config, outputPath, inputFile, outFile, run, extractors, returns>>

\* The code after the loop of attemptExtractionWithFallbacks
\* (pkg/utils/intermediate_manager.go)
AfterLoopLocal ==
    /\ gen = "local"
    /\ pc = "loop"
    /\ loop.i > Len(extractors)
    /\ LET lastError == IF IsNilErr(loop.lastError)
                        THEN NewUnsupportedError(<<"no text extracted from any available extractor">>, NoErr)
                        ELSE loop.lastError
       IN  loopRet' = <<Ret(NilResult, WrapError(lastError, "ocr", <<"all extractors failed for file">>))>>
    /\ pc' = "returned"
    /\ UNCHANGED <<ocrVars, countVars, chainVars, fingerVars, lockVars, retryVars, scratchVars, engineVars>>
    /\ UNCHANGED <<gen, config, outputPath, inputFile, outFile, run, extractors, loop, returns,
                   invoked>>

\* What os.WriteFile can do to the output path: write the whole text, fail
\* before the file is opened, or fail after it was truncated and partly written
WriteOutcomes(f) == IF f.isDir THEN {"refused"} ELSE {"written", "refused", "partial"}

\* saveToFile: the output path afterwards and the error
saveToFile(f, text, outcome) ==
    IF f.isDir
    THEN [file |-> f,
          err |-> IF gen = "local"
                  THEN NewValidationError(<<"output path is a directory">>, NoErr)
                  ELSE WrapError(PlainError(<<"is a directory">>), "io", <<"failed to write text file">>)]
    ELSE IF outcome = "written"
    THEN [file |-> OutputWith(text), err |-> NoErr]
    ELSE IF outcome = "refused"
    THEN [file |-> f,
          err |-> IF gen = "local"
                  THEN WrapError(PlainError(<<"permission denied">>), "permission",
                                 <<"no write permission for output directory">>)
                  ELSE WrapError(PlainError(<<"permission denied">>), "io",
                                 <<"failed to write text file">>)]
    ELSE [file |-> OutputWith(SubSeq(text, 1, Len(text) \div 2)),
          err |-> WrapError(PlainError(<<"input/output error">>), "io", <<"failed to write text file">>)]

\* saveToFileWithRetry: WithRetry around saveToFile; an error of saveToFile is an
\* *AppError, which is not recoverable, so saveToFile is called once
saveToFileWithRetry(f, text, outcome) ==
    LET s == saveToFile(f, text, outcome)
        r == WithRetry([a \in 1..DefaultMaxRetries |-> s.err], DefaultMaxRetries)
    IN  [file |-> s.file, err |-> r.err]

\* processWithResourceManagement after attemptExtractionWithFallbacks returned,
\* and the return of ProcessFile
ProcessWithResourceManagement ==
    /\ pc = "returned"
    /\ LET r == loopRet[1]
           outputFile == determineOutputPath(outputPath)
       IN  IF ~IsNilErr(r.err)
           THEN /\ returns' = Append(returns, Ret(NilResult, r.err))
                /\ UNCHANGED outFile
           ELSE IF outputFile # ""
           THEN \E outcome \in WriteOutcomes(outFile) :
                  LET s == saveToFileWithRetry(outFile, r.result.Text, outcome)
                  IN  /\ outFile' = s.file
                      /\ returns' = Append(returns,
                            IF IsNilErr(s.err) THEN Ret(r.result, NoErr)
                            ELSE Ret(NilResult, WrapError(s.err, "io", <<"failed to save output file">>)))
           ELSE /\ returns' = Append(returns, Ret(r.result, NoErr))
                /\ UNCHANGED outFile
    /\ pc' = "done"
    /\ UNCHANGED <<ocrVars, countVars, chainVars, fingerVars, lockVars, retryVars, scratchVars, engineVars>>
    /\ UNCHANGED <<gen, config, outputPath, inputFile, run, extractors, loop, loopRet, invoked>>

\* the command is run again on the same input with the same configuration
NextRun ==
    /\ pc = "done"
    /\ run < MaxRuns
    /\ run' = run + 1
    /\ pc' = "idle"
    /\ extractors' = <<>>
    /\ loop' = LoopInit
    /\ loopRet' = <<>>
    /\ returns' = <<returns[Len(returns)]>>
    /\ invoked' = <<>>
    /\ UNCHANGED <<ocrVars, countVars, chainVars, fingerVars, lockVars, retryVars, scratchVars, engineVars>>
    /\ UNCHANGED <<gen, config, outputPath, inputFile, outFile>>

(***************************************************************************)
(* The OCR pipeline: OCRExtractor.Extract on a PDF                         *)
(***************************************************************************)
MaxPages == 2

\* the runs of Extract on one document
MaxOCRRuns == 3

PageLetters == <<"a", "b", "c", "d">>

\* what the engine can return for page p: an error, no text, white space, or
\* the text of the page with white space around it
EngineOutcomes(p) ==
    {Out(<<>>, PlainError(<<"exit status 1">>)), Out(<<>>, NoErr), Out(<<" ">>, NoErr),
     Out(<<" ", PageLetters[p], " ">>, NoErr)}

Documents ==
    UNION {[n : {n}, out : {o \in [1..n -> UNION {EngineOutcomes(p) : p \in 1..n}] :
                              \A p \in 1..n : o[p] \in EngineOutcomes(p)},
            direct : BOOLEAN, rasterOK : BOOLEAN, engineOK : BOOLEAN] : n \in 1..MaxPages}

DefaultMaxConcurrency == 4

OCRConfigs ==
    [Ext : {"pdf"}, ContentType : {"image"}, OCRStrategy : {"surya_ocr"},
     MinTextThreshold : {0, 2 * DefaultMinTextThreshold}, SkipExisting : BOOLEAN,
     MaxConcurrency : {1, DefaultMaxConcurrency}]

NoPages == [p \in 1..MaxPages |-> <<>>]

HistInit ==
    [engine |-> <<>>, splits |-> 0, rasters |-> <<>>, writes |-> <<>>, visited |-> <<>>,
     failed |-> <<>>, good |-> <<>>, events |-> <<>>]

StartOf(tf, pt, pd) == [textFile |-> tf, pageTxt |-> pt, pagesDir |-> pd, entered |-> FALSE]

InitOCR ==
    /\ doc \in {d \in Documents : /\ d.rasterOK \/ ~d.direct
                                  /\ gen = "nodewee" => d.direct}
    /\ pagesDir = <<>>
    /\ pageTxt = NoPages
    /\ textFile \in {<<>>, <<Rep("x", 2 * DefaultMinTextThreshold)>>}
    /\ orun = 1
    /\ opc = "start"
    /\ totalPages = 0
    /\ pageNum = 0
    /\ allText = <<>>
    /\ ocrRet = <<>>
    /\ ocrData = <<>>
    /\ textMade = <<>>
    /\ start = StartOf(textFile, pageTxt, pagesDir)
    /\ hist = HistInit

\* OCRExtractor.initialize: the error it returns
initialize(d) ==
    IF gen = "nodewee" /\ ~d.engineOK
    THEN WrapError(PlainError(<<"OCR tool is not available on this system">>), "ocr",
                   <<"failed to select OCR tool">>)
    ELSE NoErr

\* OCRExtractor.checkCache: <<>> or <<the cached text>>
checkCache(cfg, tf) == IF ~cfg.SkipExisting THEN <<>> ELSE tf

\* OCRExtractor.selectOCREngine (pkg/ocr/ocr.go): the error it returns
selectOCREngine(d) ==
    IF gen = "local" /\ ~d.engineOK THEN PlainError(<<"OCR engine is not available">>) ELSE NoErr

\* the number of page files a run finds
existingPageCount(pd) == IF gen = "nodewee" THEN countExistingPages(pd) ELSE countPages(pd)

\* the error of a failed run of the page splitter, as Extract returns it
splitError ==
    IF gen = "nodewee"
    THEN WrapError(WrapError(PlainError(<<"exit status 1">>), "system", <<"failed to split PDF">>),
                   "conversion", <<"failed to split PDF into single pages">>)
    ELSE WrapError(WrapError(PlainError(<<"exit status 1">>), "conversion",
                             <<"failed to split PDF with Ghostscript">>),
                   "ocr", <<"failed to split PDF into pages">>)

\* Extract up to the page loop.  gsOK: whether the page splitter succeeds.
OCRStart ==
    /\ opc = "start"
    /\ LET ierr == initialize(doc)
           cached == checkCache(config, textFile)
           eerr == selectOCREngine(doc)
           existing == existingPageCount(pagesDir)
           snap == StartOf(textFile, pageTxt, pagesDir)
       IN  IF ~IsNilErr(ierr)
           THEN /\ ocrRet' = <<Out(<<>>, ierr)>>
                /\ opc' = "done"
                /\ start' = snap
                /\ UNCHANGED <<pagesDir, totalPages, pageNum, hist>>
           ELSE IF cached # <<>>
           THEN /\ ocrRet' = <<Out(cached[1], NoErr)>>
                /\ opc' = "done"
                /\ start' = snap
                /\ UNCHANGED <<pagesDir, totalPages, pageNum, hist>>
           ELSE IF ~IsNilErr(eerr)
           THEN /\ ocrRet' = <<Out(<<>>, eerr)>>
                /\ opc' = "done"
                /\ start' = snap
                /\ UNCHANGED <<pagesDir, totalPages, pageNum, hist>>
           ELSE IF existing > 0
           THEN /\ totalPages' = existing
                /\ pageNum' = 1
                /\ opc' = "pages"
                /\ start' = [snap EXCEPT !.entered = TRUE]
                /\ UNCHANGED <<pagesDir, ocrRet, hist>>
           ELSE \E gsOK \in BOOLEAN :
                  IF gsOK
                  THEN /\ pagesDir' = [p \in 1..doc.n |-> "ok"]
                       /\ totalPages' = existingPageCount(pagesDir')
                       /\ pageNum' = 1
                       /\ opc' = "pages"
                       /\ start' = [snap EXCEPT !.entered = TRUE]
                       /\ hist' = [hist EXCEPT !.splits = 1]
                       /\ UNCHANGED ocrRet
                  ELSE /\ ocrRet' = <<Out(<<>>, splitError)>>
                       /\ opc' = "done"
                       /\ start' = snap
                       /\ hist' = [hist EXCEPT !.splits = 1]
                       /\ UNCHANGED <<pagesDir, totalPages, pageNum>>
    /\ allText' = <<>>
    /\ UNCHANGED <<gen, config, doc, pageTxt, textFile, orun, ocrData, textMade>>
    /\ UNCHANGED <<outputPath, inputFile, outFile, run, pc, extractors, loop, loopRet, returns,
                   invoked, countVars, chainVars, fingerVars, lockVars, retryVars, scratchVars, engineVars>>

\* The process is interrupted while the page splitter runs, after the splitter
\* wrote the files of pages 1..k of a document of more pages (Ghostscript writes
\* page_%d.pdf one file after the other), and the command is run again.
OCRSplitInterrupt ==
    /\ opc = "start"
    /\ orun < MaxOCRRuns
    /\ IsNilErr(initialize(doc))
    /\ checkCache(config, textFile) = <<>>
    /\ IsNilErr(selectOCREngine(doc))
    /\ existingPageCount(pagesDir) = 0
    /\ \E k \in 1..(doc.n - 1) : pagesDir' = [p \in 1..k |-> "ok"]
    /\ orun' = orun + 1
    /\ hist' = HistInit
    /\ start' = StartOf(textFile, pageTxt, pagesDir')
    /\ UNCHANGED <<gen, config, doc, pageTxt, textFile, opc, totalPages, pageNum, allText, ocrRet,
                   ocrData, textMade>>
    /\ UNCHANGED <<outputPath, inputFile, outFile, run, pc, extractors, loop, loopRet, returns,
                   invoked, countVars, chainVars, fingerVars, lockVars, retryVars, scratchVars, engineVars>>

\* the page file of page p, "missing" beyond the directory
PagePDF(pd, p) == IF p <= Len(pd) THEN pd[p] ELSE "missing"

\* one page of the page loop: what it yields
pageStep(d, p, cached, pagePDF) ==
    IF gen = "nodewee" THEN pageStepNodewee(d, p, cached, pagePDF)
    ELSE processPageWithProgress(d, p, cached, pagePDF)

appendPage(text, p, r) ==
    IF gen = "nodewee" THEN appendPageNodewee(text, p, r) ELSE appendPageLocal(text, p, r)

\* the calls of the engine one iteration makes: processPageWithRetry calls it
\* again after a failure, processPageWithProgress calls it once
engineCalls(d, p, r) ==
    IF ~r.engine THEN 0
    ELSE IF gen = "nodewee" THEN processPageWithRetry(d, p).calls
    ELSE 1

\* calls of the engine that return before the loop goes on: the start and the
\* end of each, in the order they happen
RECURSIVE EngineEvents(_, _)
EngineEvents(p, calls) ==
    IF calls = 0 THEN <<>>
    ELSE <<[page |-> p, what |-> "start"], [page |-> p, what |-> "end"]>>
         \o EngineEvents(p, calls - 1)

\* ExtractTextFromPDF and ExtractTextFromImage of the engines of
\* pkg/utils/intermediate_manager.go: the content of the OCR data file of the
\* document when there is one, what the tool yields for the page otherwise.  The
\* engines of pkg/ocr/engines keep one result file for each page file.
engineOutput(d, p, data) ==
    IF gen = "local" /\ data # <<>> THEN Out(data[1], NoErr) ELSE d.out[p]

\* the document as the page loop sees it through the engine
ThroughEngine(d, data) == [d EXCEPT !.out = [p \in 1..d.n |-> engineOutput(d, p, data)]]

\* the OCR data file after the page step that yielded r: the engines of
\* pkg/utils/intermediate_manager.go write it after each run of the tool
writeOCRData(data, d, p, r) ==
    IF gen = "local" /\ r.engine /\ IsNilErr(r.err) /\ data = <<>> THEN <<d.out[p].text>> ELSE data

\* a loop that stays on its page
samePage(p) == p

\* the page the loop goes to after page p
nextPage(p) == p + 1

\* One iteration of the page loop
OCRPage ==
    /\ opc = "pages"
    /\ pageNum <= totalPages
    /\ LET r == pageStep(ThroughEngine(doc, ocrData), pageNum, pageTxt[pageNum],
                         PagePDF(pagesDir, pageNum))
           next == appendPage(allText, pageNum, r)
       IN  /\ allText' = next
           /\ ocrData' = writeOCRData(ocrData, doc, pageNum, r)
           /\ pageTxt' = IF r.write # <<>> THEN [pageTxt EXCEPT ![pageNum] = r.write] ELSE pageTxt
           /\ hist' = [hist EXCEPT
                         !.visited = Append(@, pageNum),
                         !.engine = IF r.engine THEN Append(@, pageNum) ELSE @,
                         !.events = @ \o EngineEvents(pageNum, engineCalls(doc, pageNum, r)),
                         !.rasters = IF r.raster THEN Append(@, pageNum) ELSE @,
                         !.writes = IF r.write # <<>> THEN Append(@, pageNum) ELSE @,
                         !.failed = IF ~IsNilErr(r.err) THEN Append(@, pageNum) ELSE @,
                         !.good = IF IsNilErr(r.err) /\ r.text # <<>>
                                  THEN Append(@, TrimSpace(r.text))
                                  ELSE @]
    /\ pageNum' = nextPage(pageNum)
    /\ UNCHANGED <<gen, config, doc, pagesDir, textFile, orun, opc, totalPages, ocrRet, textMade,
                   start>>
    /\ UNCHANGED <<outputPath, inputFile, outFile, run, pc, extractors, loop, loopRet, returns,
                   invoked, countVars, chainVars, fingerVars, lockVars, retryVars, scratchVars, engineVars>>

\* the code after the page loop, up to the return of Extract: text and error
finish(cfg, text) == IF gen = "nodewee" THEN extractAndValidateText(cfg, text) ELSE finishLocal(cfg, text)

\* saveCache (pkg/ocr/ocr.go); Extract of pkg/ocr/extractor.go saves nothing
saveCache(tf, o) == IF gen = "local" /\ IsNilErr(o.err) THEN <<o.text>> ELSE tf

OCRFinish ==
    /\ opc = "pages"
    /\ pageNum > totalPages
    /\ LET o == finish(config, allText)
       IN  /\ ocrRet' = <<o>>
           /\ textFile' = saveCache(textFile, o)
           /\ textMade' = IF saveCache(<<>>, o) # <<>>
                          THEN <<[pages |-> totalPages, failed |-> hist.failed]>>
                          ELSE textMade
           /\ hist' = IF textFile' # textFile THEN [hist EXCEPT !.writes = Append(@, 0)] ELSE hist
    /\ opc' = "done"
    /\ UNCHANGED <<gen, config, doc, pagesDir, pageTxt, orun, totalPages, pageNum, allText,
                   ocrData, start>>
    /\ UNCHANGED <<outputPath, inputFile, outFile, run, pc, extractors, loop, loopRet, returns,
                   invoked, countVars, chainVars, fingerVars, lockVars, retryVars, scratchVars, engineVars>>

\* the process is interrupted in the page loop and the command is run again
OCRInterrupt ==
    /\ opc = "pages"
    /\ orun < MaxOCRRuns
    /\ orun' = orun + 1
    /\ opc' = "start"
    /\ totalPages' = 0
    /\ pageNum' = 0
    /\ allText' = <<>>
    /\ ocrRet' = <<>>
    /\ hist' = HistInit
    /\ start' = StartOf(textFile, pageTxt, pagesDir)
    /\ UNCHANGED <<gen, config, doc, pagesDir, pageTxt, textFile, ocrData, textMade>>
    /\ UNCHANGED <<outputPath, inputFile, outFile, run, pc, extractors, loop, loopRet, returns,
                   invoked, countVars, chainVars, fingerVars, lockVars, retryVars, scratchVars, engineVars>>

\* Extract is called again on the same input with the same configuration
OCRNextRun ==
    /\ opc = "done"
    /\ orun < MaxOCRRuns
    /\ orun' = orun + 1
    /\ opc' = "start"
    /\ totalPages' = 0
    /\ pageNum' = 0
    /\ allText' = <<>>
    /\ ocrRet' = <<>>
    /\ hist' = HistInit
    /\ start' = StartOf(textFile, pageTxt, pagesDir)
    /\ UNCHANGED <<gen, config, doc, pagesDir, pageTxt, textFile, ocrData, textMade>>
    /\ UNCHANGED <<outputPath, inputFile, outFile, run, pc, extractors, loop, loopRet, returns,
                   invoked, countVars, chainVars, fingerVars, lockVars, retryVars, scratchVars, engineVars>>

(***************************************************************************)
(* The page counters applied to a pages directory                          *)
(***************************************************************************)
MaxFiles == 4

InitCount ==
    /\ dir \in [1..MaxFiles -> {"missing", "tiny", "ok"}]
    /\ counted = <<>>

\* OCRExtractor.countPages (pkg/ocr/ocr.go) is called on the directory
CountPages ==
    /\ gen = "local"
    /\ counted = <<>>
    /\ counted' = <<countPages(dir)>>
    /\ UNCHANGED <<procVars, ocrVars, dir, chainVars, fingerVars, lockVars, retryVars, scratchVars, engineVars>>

\* OCRExtractor.countExistingPages (pkg/ocr/extractor.go) is called on the directory
CountExistingPages ==
    /\ gen = "nodewee"
    /\ counted = <<>>
    /\ counted' = <<countExistingPages(dir)>>
    /\ UNCHANGED <<procVars, ocrVars, dir, chainVars, fingerVars, lockVars, retryVars, scratchVars, engineVars>>

(***************************************************************************)
(* The extractor factory applied to a file                                 *)
(***************************************************************************)
ChainConfigs ==
    [Ext : FileExtensions, ContentType : ContentTypes, OCRStrategy : {OCRStrategyInteractive},
     MinTextThreshold : {DefaultMinTextThreshold}, SkipExisting : {FALSE}]

InitChain == built = <<>>

\* DefaultExtractorFactory.CreateExtractorWithFallbacks is called for the file
BuildChain ==
    /\ built = <<>>
    /\ built' = <<CreateChain(config)>>
    /\ UNCHANGED <<procVars, ocrVars, countVars, fingerVars, lockVars, retryVars, scratchVars,
                   engineVars>>

(***************************************************************************)
(* The retry executors applied to an operation                             *)
(***************************************************************************)
MaxAttempts == 3

\* the errors an operation returns: *AppError of every kind the executors
\* distinguish, and plain errors that classifyError sorts into those kinds
OperationErrors ==
    {NewValidationError(<<"bad input">>, NoErr), NewNotFoundError(<<"missing">>, NoErr),
     NewError("permission", <<"denied">>, NoErr), NewError("timeout", <<"timed out">>, NoErr),
     NewError("network", <<"unreachable">>, NoErr), NewError("io", <<"read failed">>, NoErr),
     PlainError(<<"invalid argument">>), PlainError(<<"no such file">>),
     PlainError(<<"permission denied">>), PlainError(<<"context deadline exceeded">>),
     PlainError(<<"connection refused">>), PlainError(<<"input/output error">>)}

\* an operation that fails with e on its first k calls and succeeds afterwards
FailingOperation(e, k) == [a \in 1..(MaxAttempts + 1) |-> IF a <= k THEN e ELSE NoErr]

InitRetry ==
    /\ rexec \in {"WithRetry", "WithRetrySimple"}
    /\ rbudget \in 1..MaxAttempts
    /\ rfn \in {FailingOperation(e, k) : e \in OperationErrors, k \in 0..(MaxAttempts + 1)}
    /\ rret = <<>>
    /\ rcancel = NeverCancelled
    /\ rhooks = ProcessorHooks

\* WithRetry is called with an ErrorHandler of any registered strategies
InitHook ==
    /\ rexec = "WithRetry"
    /\ rbudget \in 1..MaxAttempts
    /\ rfn \in {FailingOperation(e, k) : e \in OperationErrors, k \in 0..(MaxAttempts + 1)}
    /\ rret = <<>>
    /\ rcancel = NeverCancelled
    /\ rhooks \in {h \in [ErrorTypes -> HookOutcomes] :
                       \A t \in ErrorTypes \ HookTypes : h[t] = "none"}

\* the moments the context can be cancelled at: during call k of the operation,
\* or in the pause after it (k = 0: before the executor is called), or never
CancelPoints ==
    {NeverCancelled} \cup [phase : {"call"}, at : 1..(MaxAttempts + 1)]
                     \cup [phase : {"pause"}, at : 0..MaxAttempts]

\* an executor is called under a context that may be cancelled
InitCancel ==
    /\ rexec \in {"WithRetry", "WithRetrySimple", "WithRetryContext"}
    /\ rbudget \in 1..MaxAttempts
    /\ rfn \in {FailingOperation(e, k) : e \in OperationErrors, k \in 0..(MaxAttempts + 1)}
    /\ rret = <<>>
    /\ rcancel \in CancelPoints
    /\ rhooks = ProcessorHooks

\* WithRetry(fn, maxAttempts, eh) is called
CallWithRetry ==
    /\ rexec = "WithRetry"
    /\ rret = <<>>
    /\ LET r == WithRetry(UnderContext(rfn, rcancel), rbudget)
       IN  rret' = <<[err |-> r.err, calls |-> r.calls, sleeps |-> 0,
                      hooks |-> HooksFrom(UnderContext(rfn, rcancel), 1, rbudget, rhooks)]>>
    /\ UNCHANGED <<procVars, ocrVars, countVars, chainVars, fingerVars, lockVars, scratchVars, engineVars, rexec, rbudget, rfn,
                   rcancel, rhooks>>

\* SimpleErrorHandler.WithRetrySimple(fn) is called
CallWithRetrySimple ==
    /\ rexec = "WithRetrySimple"
    /\ rret = <<>>
    /\ LET r == WithRetrySimple(UnderContext(rfn, rcancel), rbudget)
       IN  rret' = <<[err |-> r.err, calls |-> r.calls, sleeps |-> r.calls - 1]>>
    /\ UNCHANGED <<procVars, ocrVars, countVars, chainVars, fingerVars, lockVars, scratchVars, engineVars, rexec, rbudget, rfn,
                   rcancel, rhooks>>

\* SimpleErrorHandler.WithRetryContext(ctx, fn) is called
CallWithRetryContext ==
    /\ rexec = "WithRetryContext"
    /\ rret = <<>>
    /\ rret' = <<WithRetryContext(rfn, rcancel, 0, rbudget, 0)>>
    /\ UNCHANGED <<procVars, ocrVars, countVars, chainVars, fingerVars, lockVars, scratchVars, engineVars, rexec, rbudget, rfn,
                   rcancel, rhooks>>

(***************************************************************************)
(* The scratch-file managers and the run they serve                        *)
(***************************************************************************)
MaxScratch == 2

\* the names os.CreateTemp and os.MkdirTemp hand out: each one is fresh
ScratchNames == <<"s1", "s2", "s3", "s4", "s5", "s6">>

ManagerKinds == {"FileManager", "SimpleTempManager", "ResourceManager"}

\* the implementations of Extract that create scratch files
StrategyFiles ==
    {"pkg/providers/ebook.go", "unnamed/part_010", "pkg/constants/constants.go",
     "unnamed/part_004", "pkg/providers/calibre.go"}

\* the files of the persistent namespace: final text, page files, raw OCR results
PersistentArtifacts ==
    {<<"md5", "text.txt">>, <<"md5", "ocr_data.json">>, <<"md5", "pages", "page_1.pdf">>,
     <<"md5", "pages", "page_1.txt">>, <<"md5", "pages", "page_1.png">>}

Range(s) == {s[i] : i \in 1..Len(s)}

\* path d is path p or a directory above it
IsPrefix(d, p) == Len(d) <= Len(p) /\ SubSeq(p, 1, Len(d)) = d

\* the directory the manager creates with EnsureBaseDir
BaseDirOf(kind) ==
    IF kind = "FileManager" THEN <<"md5">>
    ELSE IF kind = "SimpleTempManager" THEN <<"md5", "temp">>
    ELSE <<"tmp">>

\* the path CreateTempFile returns
TempFilePath(kind, name) ==
    IF kind = "ResourceManager" THEN <<"tmp", name>> ELSE <<"md5", "temp", name>>

\* the path CreateTempDir returns: a directory of the system's temporary directory
TempDirPath(kind, name) == <<"tmp", name>>

\* a cleanup that removes the whole directory of the input's fingerprint
CleanupAll(fs, files, dirs, stuck) ==
    {p \in fs : /\ ~IsPrefix(<<"md5">>, p)
                /\ p \notin (Range(files) \ stuck)
                /\ \A d \in Range(dirs) \ stuck : ~IsPrefix(d, p)}

\* The file system after Cleanup / CleanupTemp: os.Remove of every listed file
\* and os.RemoveAll of every listed directory; stuck: the paths whose removal fails
CleanupTemp(fs, files, dirs, stuck) ==
    {p \in fs : /\ p \notin (Range(files) \ stuck)
                /\ \A d \in Range(dirs) \ stuck : ~IsPrefix(d, p)}

\* the error Cleanup / CleanupTemp returns
CleanupError(fns, files, dirs, stuck) ==
    LET n == Cardinality({i \in 1..Len(fns) : ~IsNilErr(fns[i])})
             + Cardinality((Range(files) \cup Range(dirs)) \cap stuck)
    IN  IF n > 0 THEN PlainError(<<"cleanup failed with errors", n>>) ELSE NoErr

\* IntermediateManager.Cleanup: nothing is removed
IntermediateCleanup(fs) == fs

\* a scoped cleanup that reports the failure of the cleanup
WithCleanupMasking(fnErr, cleanupErr) == IF IsNilErr(cleanupErr) THEN fnErr ELSE cleanupErr

\* what WithCleanup returns: the deferred cleanup's error is logged only
WithCleanup(fnErr, cleanupErr) == fnErr

\* the manager a strategy creates for itself
ManagerOf(s) == IF s = "unnamed/part_010" THEN "FileManager" ELSE "SimpleTempManager"

\* whether the strategy wraps its work in WithCleanup of its own manager
CleansWithManager(s) == s \in {"pkg/constants/constants.go", "unnamed/part_004"}

\* whether the strategy removes its scratch file itself (defer os.Remove)
CleansByHand(s) == s = "pkg/providers/calibre.go"

ScratchHistInit == [cleanups |-> 0, removeFailed |-> FALSE, tracked |-> {}, stuck |-> {},
                    cleanupErr |-> NoErr, extracted |-> FALSE]

InitScratch ==
    /\ mkind \in ManagerKinds
    /\ strat \in StrategyFiles \cup {"none"}
    /\ fsys \in {{}, PersistentArtifacts}
    /\ tempFiles = <<>>
    /\ tempDirs = <<>>
    /\ cleanupFns = <<>>
    /\ stratFiles = <<>>
    /\ spc = "idle"
    /\ fnRet = <<>>
    /\ sret = <<>>
    /\ made = <<>>
    /\ shist = ScratchHistInit

\* CreateTempFile of the run's manager
CreateTempFile ==
    /\ spc \in {"idle", "fn"}
    /\ Len(made) < MaxScratch
    /\ LET f == TempFilePath(mkind, ScratchNames[Len(made) + 1])
       IN  /\ fsys' = fsys \cup {BaseDirOf(mkind), f}
           /\ tempFiles' = Append(tempFiles, f)
           /\ made' = Append(made, f)
    /\ UNCHANGED <<procVars, ocrVars, countVars, chainVars, fingerVars, lockVars, retryVars, engineVars>>
    /\ UNCHANGED <<mkind, strat, tempDirs, cleanupFns, stratFiles, spc, fnRet, sret, shist>>

\* CreateTempDir of the run's manager; filled: whether a tool then writes into it
CreateTempDir ==
    /\ spc \in {"idle", "fn"}
    /\ Len(made) < MaxScratch
    /\ \E filled \in BOOLEAN :
         LET d == TempDirPath(mkind, ScratchNames[Len(made) + 1])
         IN  /\ fsys' = fsys \cup (IF mkind = "ResourceManager" THEN {} ELSE {BaseDirOf(mkind)})
                             \cup {d} \cup (IF filled THEN {Append(d, "out")} ELSE {})
             /\ tempDirs' = Append(tempDirs, d)
             /\ made' = Append(made, d)
    /\ UNCHANGED <<procVars, ocrVars, countVars, chainVars, fingerVars, lockVars, retryVars, engineVars>>
    /\ UNCHANGED <<mkind, strat, tempFiles, cleanupFns, stratFiles, spc, fnRet, sret, shist>>

\* RegisterCleanupFunc: the callback is known by what it will return
RegisterCleanupFunc ==
    /\ spc \in {"idle", "fn"}
    /\ Len(cleanupFns) < 1
    /\ \E e \in {NoErr, PlainError(<<"callback failed">>)} :
         cleanupFns' = Append(cleanupFns, e)
    /\ UNCHANGED <<procVars, ocrVars, countVars, chainVars, fingerVars, lockVars, retryVars, engineVars>>
    /\ UNCHANGED <<mkind, strat, fsys, tempFiles, tempDirs, stratFiles, spc, fnRet, sret, made,
                   shist>>

\* processWithResourceManagement calls WithCleanup: the function starts
WithCleanupEnter ==
    /\ spc = "idle"
    /\ spc' = "fn"
    /\ UNCHANGED <<procVars, ocrVars, countVars, chainVars, fingerVars, lockVars, retryVars, engineVars>>
    /\ UNCHANGED <<mkind, strat, fsys, tempFiles, tempDirs, cleanupFns, stratFiles, fnRet, sret,
                   made, shist>>

\* The strategy's Extract, called inside the function: it creates a scratch file
\* with its own manager, runs the converter, and cleans up as its code says
StrategyExtract ==
    /\ spc = "fn"
    /\ strat # "none"
    /\ ~shist.extracted
    /\ Len(made) < MaxScratch
    /\ LET f == TempFilePath(ManagerOf(strat), ScratchNames[Len(made) + 1])
           created == fsys \cup {BaseDirOf(ManagerOf(strat)), f}
       IN  /\ made' = Append(made, f)
           /\ IF CleansWithManager(strat)
              THEN \E stuck \in SUBSET {f} :
                     /\ fsys' = CleanupTemp(created, <<f>>, <<>>, stuck)
                     /\ stratFiles' = <<>>
                     /\ shist' = [shist EXCEPT !.extracted = TRUE,
                                               !.removeFailed = shist.removeFailed \/ stuck # {}]
              ELSE IF CleansByHand(strat)
              THEN \E stuck \in SUBSET {f} :
                     /\ fsys' = created \ ({f} \ stuck)
                     /\ stratFiles' = Append(stratFiles, f)
                     /\ shist' = [shist EXCEPT !.extracted = TRUE,
                                               !.removeFailed = shist.removeFailed \/ stuck # {}]
              ELSE /\ fsys' = created
                   /\ stratFiles' = Append(stratFiles, f)
                   /\ shist' = [shist EXCEPT !.extracted = TRUE]
    /\ UNCHANGED <<procVars, ocrVars, countVars, chainVars, fingerVars, lockVars, retryVars, engineVars>>
    /\ UNCHANGED <<mkind, strat, tempFiles, tempDirs, cleanupFns, spc, fnRet, sret>>

\* The function returns e, the deferred cleanup runs, WithCleanup returns
WithCleanupReturn ==
    /\ spc = "fn"
    /\ \E e \in {NoErr, NewOCRError(<<"all extractors failed">>, NoErr)},
          stuck \in SUBSET (Range(tempFiles) \cup Range(tempDirs)) :
         LET cleanupErr == CleanupError(cleanupFns, tempFiles, tempDirs, stuck)
         IN  /\ fnRet' = <<e>>
             /\ fsys' = CleanupTemp(fsys, tempFiles, tempDirs, stuck)
             /\ sret' = <<WithCleanup(e, cleanupErr)>>
             /\ shist' = [shist EXCEPT !.cleanups = 1,
                                       !.removeFailed = shist.removeFailed \/ stuck # {},
                                       !.tracked = Range(tempFiles) \cup Range(tempDirs),
                                       !.stuck = stuck,
                                       !.cleanupErr = cleanupErr]
    /\ tempFiles' = <<>>
    /\ tempDirs' = <<>>
    /\ cleanupFns' = <<>>
    /\ spc' = "done"
    /\ UNCHANGED <<procVars, ocrVars, countVars, chainVars, fingerVars, lockVars, retryVars, engineVars>>
    /\ UNCHANGED <<mkind, strat, stratFiles, made>>

\* Cleanup called outside WithCleanup: FileManager.Cleanup, SimpleTempManager.Cleanup,
\* ResourceManager.Cleanup, or IntermediateManager.Cleanup on the persistent side
ExplicitCleanup ==
    /\ spc = "idle"
    /\ shist.cleanups = 0
    /\ \E intermediate \in BOOLEAN,
          stuck \in SUBSET (Range(tempFiles) \cup Range(tempDirs)) :
         IF intermediate
         THEN /\ stuck = {}
              /\ fsys' = IntermediateCleanup(fsys)
              /\ shist' = [shist EXCEPT !.cleanups = 1]
              /\ UNCHANGED <<tempFiles, tempDirs, cleanupFns>>
         ELSE /\ fsys' = CleanupTemp(fsys, tempFiles, tempDirs, stuck)
              /\ shist' = [shist EXCEPT !.cleanups = 1,
                                        !.removeFailed = shist.removeFailed \/ stuck # {}]
              /\ tempFiles' = <<>>
              /\ tempDirs' = <<>>
              /\ cleanupFns' = <<>>
    /\ UNCHANGED <<procVars, ocrVars, countVars, chainVars, fingerVars, lockVars, retryVars, engineVars>>
    /\ UNCHANGED <<mkind, strat, stratFiles, spc, fnRet, sret, made>>

(***************************************************************************)
(* The engine results parser: SuryaOCREngine.parseOCRResults               *)
(***************************************************************************)
MaxResultFiles == 2

MaxResultPages == 2

MaxResultLines == 2

\* the text of line l of page p of file f: no two lines have the same text
LineText(f, p, l) == Itoa(f) \o Itoa(p) \o Itoa(l)

\* A results.json of nf files with np pages of nl text lines each, in the order
\* of the document; the line at position blank (if any) has the text blankText
ResultsOf(nf, np, nl, blank, blankText) ==
    [f \in 1..nf |-> [p \in 1..np |-> [l \in 1..nl |->
        [text |-> IF <<f, p, l>> = blank THEN blankText ELSE LineText(f, p, l),
         confidence |-> 9, bbox |-> <<0, 0, 1, 1>>]]]]

InitParse ==
    /\ results \in {ResultsOf(nf, np, nl, blank, blankText) :
                       nf \in 1..MaxResultFiles, np \in 1..MaxResultPages,
                       nl \in 1..MaxResultLines,
                       blank \in {<<0, 0, 0>>} \cup ((1..MaxResultFiles) \X (1..MaxResultPages)
                                                     \X (1..MaxResultLines)),
                       blankText \in {<<>>, <<" ">>}}
    /\ parsed = <<>>

RECURSIVE Flatten(_)
Flatten(ss) == IF ss = <<>> THEN <<>> ELSE Head(ss) \o Flatten(Tail(ss))

\* the orders a range over a Go map of n keys can take
MapOrders(n) == {o \in [1..n -> 1..n] : \A i, j \in 1..n : o[i] = o[j] => i = j}

\* the text fields in the order the three nested loops visit them
TextLines(res, order) ==
    Flatten([i \in 1..Len(res) |->
        Flatten([p \in 1..Len(res[order[i]]) |->
            [l \in 1..Len(res[order[i]][p]) |-> res[order[i]][p][l].text]])])

\* the loop body of pkg/ocr/engines/surya_ocr.go
RECURSIVE writeLinesNodewee(_)
writeLinesNodewee(texts) ==
    IF texts = <<>> THEN <<>>
    ELSE (IF TrimSpace(Head(texts)) # <<>> THEN Head(texts) \o <<"\n">> ELSE <<>>)
         \o writeLinesNodewee(Tail(texts))

\* the loop body of pkg/utils/intermediate_manager.go
RECURSIVE writeLinesLocal(_)
writeLinesLocal(texts) ==
    IF texts = <<>> THEN <<>>
    ELSE (IF Head(texts) # <<>> THEN Head(texts) \o <<"\n">> ELSE <<>>)
         \o writeLinesLocal(Tail(texts))

parseOCRResults(res, order) ==
    IF gen = "nodewee"
    THEN LET extractedText == TrimSpace(writeLinesNodewee(TextLines(res, order)))
         IN  IF extractedText = <<>>
             THEN Out(<<>>, PlainError(<<"no text found in OCR results">>))
             ELSE Out(extractedText, NoErr)
    ELSE Out(writeLinesLocal(TextLines(res, order)), NoErr)

\* parseOCRResults is called on the results file
ParseOCRResults ==
    /\ parsed = <<>>
    /\ results # <<>>
    /\ \E order \in MapOrders(Len(results)) : parsed' = <<parseOCRResults(results, order)>>
    /\ UNCHANGED <<procVars, ocrVars, countVars, chainVars, fingerVars, lockVars, retryVars, scratchVars>>
    /\ UNCHANGED <<results, cli, lcfg, lengine, lpc, ltool, lret, gsRun, splitDir, splitRet, pathVars>>

(***************************************************************************)
(* The AI-prompt engine and its template: LLMCallerEngine                  *)
(***************************************************************************)
OCRStrategyLLMCaller == "llm-caller"

\* the template the engine falls back to
DefaultLLMTemplate == "analyze"

\* --ocr, --llm_template, DOC_TEXT_OCR_STRATEGY, DOC_TEXT_LLM_TEMPLATE, the tool
\* the user picks when asked, and the template the user types when asked
CommandLines ==
    [flagOCR : {"", OCRStrategyLLMCaller, "surya_ocr"}, flagTemplate : {"", "qwen-vl-ocr"},
     envOCR : {"", OCRStrategyLLMCaller}, envTemplate : {"", "qwen-vl-ocr"},
     chosen : {OCRStrategyLLMCaller, "surya_ocr"}, typed : {"", "qwen-vl-ocr"}]

InitLLM ==
    /\ cli \in CommandLines
    /\ lcfg = [OCRStrategy |-> OCRStrategyInteractive, LLMTemplate |-> ""]
    /\ lengine = ""
    /\ lpc = "start"
    /\ ltool = <<>>
    /\ lret = <<>>

\* LoadConfigWithEnvOverrides
LoadConfigWithEnvOverrides(c) ==
    [OCRStrategy |-> IF c.envOCR # "" THEN c.envOCR ELSE OCRStrategyInteractive,
     LLMTemplate |-> c.envTemplate]

\* AppHandler.initialize: the environment, then applyCommandLineOverrides
\* (log.Fatalf ends the command); Config.Validate does not look at the template
Initialize ==
    /\ lpc = "start"
    /\ LET env == LoadConfigWithEnvOverrides(cli)
       IN  IF cli.flagOCR = "" THEN
                /\ lcfg' = env
                /\ lpc' = "configured"
                /\ UNCHANGED lret
           ELSE IF cli.flagOCR = OCRStrategyLLMCaller /\ cli.flagTemplate = "" THEN
                /\ lcfg' = [env EXCEPT !.OCRStrategy = cli.flagOCR]
                /\ lpc' = "done"
                /\ lret' = <<NewValidationError(<<"--llm_template is required">>, NoErr)>>
           ELSE /\ lcfg' = [OCRStrategy |-> cli.flagOCR, LLMTemplate |-> cli.flagTemplate]
                /\ lpc' = "configured"
                /\ UNCHANGED lret
    /\ UNCHANGED <<procVars, ocrVars, countVars, chainVars, fingerVars, lockVars, retryVars, scratchVars>>
    /\ UNCHANGED <<results, parsed, cli, lengine, ltool, gsRun, splitDir, splitRet, pathVars>>

\* The engine is selected: the configured one, or the one the user picks; a user
\* who picks the AI-prompt engine is asked for the template (pkg/ocr/selector.go
\* asks again until a name is typed, pkg/ocr/ocr.go fails on an empty answer)
SelectOCREngine ==
    /\ lpc = "configured"
    /\ IF lcfg.OCRStrategy # OCRStrategyInteractive THEN
            /\ lengine' = lcfg.OCRStrategy
            /\ lpc' = "selected"
            /\ UNCHANGED <<lcfg, lret>>
       ELSE IF cli.chosen # OCRStrategyLLMCaller THEN
            /\ lengine' = cli.chosen
            /\ lpc' = "selected"
            /\ UNCHANGED <<lcfg, lret>>
       ELSE IF cli.typed = "" /\ gen = "local" THEN
            /\ lengine' = cli.chosen
            /\ lpc' = "done"
            /\ lret' = <<PlainError(<<"LLM template cannot be empty">>)>>
            /\ UNCHANGED lcfg
       ELSE /\ lengine' = cli.chosen
            /\ lcfg' = [lcfg EXCEPT !.LLMTemplate =
                                       IF cli.typed = "" THEN "qwen-vl-ocr" ELSE cli.typed]
            /\ lpc' = "selected"
            /\ UNCHANGED lret
    /\ UNCHANGED <<procVars, ocrVars, countVars, chainVars, fingerVars, lockVars, retryVars, scratchVars>>
    /\ UNCHANGED <<results, parsed, cli, ltool, gsRun, splitDir, splitRet, pathVars>>

\* the template LLMCallerEngine passes to the tool: "analyze" when none is configured
TemplateUsed(template) == IF template = "" THEN DefaultLLMTemplate ELSE template

\* ExtractTextFromPDF of the selected engine.  found: the tool is installed;
\* cached: an earlier result is on disk; ok: the tool exits with 0
ExtractTextFromPDF ==
    /\ lpc = "selected"
    /\ \E found \in BOOLEAN, cached \in BOOLEAN, ok \in BOOLEAN :
         IF cached /\ (gen = "local" \/ found) THEN
              /\ lret' = <<NoErr>>
              /\ UNCHANGED ltool
         ELSE IF ~found THEN
              /\ lret' = <<PlainError(<<"command not found">>)>>
              /\ UNCHANGED ltool
         ELSE /\ ltool' = Append(ltool,
                     IF lengine = OCRStrategyLLMCaller
                     THEN [tool |-> "llm-caller", template |-> TemplateUsed(lcfg.LLMTemplate)]
                     ELSE [tool |-> "surya_ocr", template |-> ""])
              /\ lret' = <<IF ok THEN NoErr ELSE PlainError(<<"extraction failed">>)>>
    /\ lpc' = "done"
    /\ UNCHANGED <<procVars, ocrVars, countVars, chainVars, fingerVars, lockVars, retryVars, scratchVars>>
    /\ UNCHANGED <<results, parsed, cli, lcfg, lengine, gsRun, splitDir, splitRet, pathVars>>

(***************************************************************************)
(* The page splitter: splitPDFIntoSinglePages, splitPDFIntoPages           *)
(***************************************************************************)
\* what Ghostscript prints when it exits
SplitterMessages ==
    {<<>>, <<"Requested", "LastPage", "exceeds page count">>, <<"Invalid page">>,
     <<"Permission denied">>}

\* the page files a directory can hold: "ok" or "small" (of 100 bytes or less)
PageDirs == UNION {[1..n -> {"ok", "small"}] : n \in 0..MaxPages}

SplitterRuns ==
    [found : BOOLEAN, exit : {0, 1}, message : SplitterMessages, produced : PageDirs]

InitSplit ==
    /\ gsRun \in {g \in SplitterRuns : g.exit = 0 => g.message = <<>>}
    /\ splitDir \in {<<>>, <<"ok">>}
    /\ splitRet = <<>>

SplitResult(count, err) == [count |-> count, err |-> err]

\* splitPDFIntoSinglePages (pkg/ocr/extractor.go): what it returns and the
\* directory it leaves
splitPDFIntoSinglePages(pd, g) ==
    IF countExistingPages(pd) > 0 THEN <<SplitResult(countExistingPages(pd), NoErr), pd>>
    ELSE IF /\ g.exit # 0
            /\ ~Contains(g.message, <<"exceeds page count">>)
            /\ ~Contains(g.message, <<"Invalid page">>)
    THEN <<SplitResult(0, WrapError(PlainError(<<"exit status 1">>), "system",
                                    <<"failed to split PDF">>)), g.produced>>
    ELSE IF countExistingPages(g.produced) = 0
    THEN <<SplitResult(0, NewValidationError(<<"no pages were extracted from PDF">>, NoErr)),
           g.produced>>
    ELSE <<SplitResult(countExistingPages(g.produced), NoErr), g.produced>>

\* splitPDFIntoPages (pkg/ocr/ocr.go)
splitPDFIntoPages(pd, g) ==
    IF ~g.found
    THEN <<SplitResult(0, WrapError(PlainError(<<"Ghostscript not found">>), "system",
                                    <<"Ghostscript not found">>)), pd>>
    ELSE IF g.exit # 0
    THEN <<SplitResult(0, WrapError(PlainError(<<"exit status 1">>), "conversion",
                                    <<"failed to split PDF with Ghostscript">>)), g.produced>>
    ELSE <<SplitResult(countPages(g.produced), NoErr), g.produced>>

\* the split as the page pipeline makes it: performOCR calls the splitter and
\* rejects a count of zero; processPDFByPages looks for page files, calls the
\* splitter when there are none, and rejects a count of zero
SplitPDF ==
    /\ splitRet = <<>>
    /\ gsRun # <<>>
    /\ LET r == IF gen = "nodewee" THEN splitPDFIntoSinglePages(splitDir, gsRun)
                ELSE IF countPages(splitDir) > 0
                THEN <<SplitResult(countPages(splitDir), NoErr), splitDir>>
                ELSE splitPDFIntoPages(splitDir, gsRun)
           err == IF ~IsNilErr(r[1].err) THEN r[1].err
                  ELSE IF r[1].count > 0 THEN NoErr
                  ELSE IF gen = "nodewee" THEN NewValidationError(<<"PDF has no pages">>, NoErr)
                  ELSE NewOCRError(<<"no pages found in PDF">>, NoErr)
       IN  splitRet' = <<[count |-> r[1].count, err |-> err, dir |-> r[2]]>>
    /\ UNCHANGED <<procVars, ocrVars, countVars, chainVars, fingerVars, lockVars, retryVars, scratchVars>>
    /\ UNCHANGED <<results, parsed, cli, lcfg, lengine, lpc, ltool, lret, gsRun, splitDir, pathVars>>

(***************************************************************************)
(* The persistent paths: FileManager, IntermediateManager                  *)
(***************************************************************************)
\* filepath.Clean on a relative path given by its elements: "." is dropped and
\* "x/.." is resolved; the empty path is "."
RECURSIVE CleanFrom(_, _)
CleanFrom(done, rest) ==
    IF rest = <<>> THEN done
    ELSE IF Head(rest) = "." THEN CleanFrom(done, Tail(rest))
    ELSE IF Head(rest) = ".." /\ done # <<>> /\ done[Len(done)] # ".."
    THEN CleanFrom(SubSeq(done, 1, Len(done) - 1), Tail(rest))
    ELSE CleanFrom(Append(done, Head(rest)), Tail(rest))

Clean(path) == IF CleanFrom(<<>>, path) = <<>> THEN <<".">> ELSE CleanFrom(<<>>, path)

\* filepath.Dir
Dir(path) == Clean(SubSeq(path, 1, Len(path) - 1))

\* filepath.Join
Join(a, b) == Clean(a \o b)

\* NewFileManager, NewIntermediateManager: baseDir
NewManagerBaseDir(inputPath, md5Hash) == Clean(Join(Dir(inputPath), <<md5Hash>>))

\* Manager.GetPath
GetPath(base, relativePath) == Clean(Join(base, relativePath))

\* a page text path that does not depend on the page
GetPageTextPathShared(base, page) == GetPath(base, Join(<<"pages">>, <<<<"page_", ".txt">>>>))

\* fmt.Sprintf("page_%d.pdf", page) and the like are kept as their parts
GetPagePDFPath(base, page) ==
    GetPath(base, Join(<<"pages">>, <<<<"page_">> \o Itoa(page) \o <<".pdf">>>>))

GetPageTextPath(base, page) ==
    GetPath(base, Join(<<"pages">>, <<<<"page_">> \o Itoa(page) \o <<".txt">>>>))

GetPageImagePath(base, page) ==
    GetPath(base, Join(<<"pages">>, <<<<"page_">> \o Itoa(page) \o <<".png">>>>))

GetTextFilePath(base) == GetPath(base, <<"text.txt">>)

GetOCRDataPath(base) == GetPath(base, <<"ocr_data.json">>)

\* the logical names of the persistent artifacts of a document
LogicalNames ==
    [kind : {"pagePDF", "pageText", "pageImage"}, page : 1..MaxPages]
        \cup [kind : {"finalText", "ocrData"}, page : {0}]

PathOfName(base, name) ==
    CASE name.kind = "pagePDF" -> GetPagePDFPath(base, name.page)
      [] name.kind = "pageText" -> GetPageTextPath(base, name.page)
      [] name.kind = "pageImage" -> GetPageImagePath(base, name.page)
      [] name.kind = "finalText" -> GetTextFilePath(base)
      [] OTHER -> GetOCRDataPath(base)

\* the input files: in a directory, in the working directory, and reached by
\* paths that are not clean
InputPaths ==
    {<<"docs", "a.pdf">>, <<"a.pdf">>, <<".", "docs", "a.pdf">>, <<"docs", "sub", "..", "a.pdf">>}

InitPaths ==
    /\ pinput \in InputPaths
    /\ pfinger \in {"0cc1", "9e10"}
    /\ pbase = <<>>
    /\ prun = 1
    /\ resolved = {}

\* a run creates its manager
NewManager ==
    /\ pinput # <<>>
    /\ pbase = <<>>
    /\ pbase' = NewManagerBaseDir(pinput, pfinger)
    /\ UNCHANGED <<procVars, ocrVars, countVars, chainVars, fingerVars, lockVars, retryVars, scratchVars>>
    /\ UNCHANGED <<results, parsed, cli, lcfg, lengine, lpc, ltool, lret, gsRun, splitDir,
                   splitRet, pinput, pfinger, prun, resolved>>

\* the run asks its manager for the path of an artifact
ResolvePath ==
    /\ pbase # <<>>
    /\ \E name \in LogicalNames :
         resolved' = resolved \cup {[name |-> name, path |-> PathOfName(pbase, name)]}
    /\ UNCHANGED <<procVars, ocrVars, countVars, chainVars, fingerVars, lockVars, retryVars, scratchVars>>
    /\ UNCHANGED <<results, parsed, cli, lcfg, lengine, lpc, ltool, lret, gsRun, splitDir,
                   splitRet, pinput, pfinger, pbase, prun>>

\* the run ends; the next run on the same file starts without a manager
NextPathRun ==
    /\ pbase # <<>>
    /\ prun < MaxRuns
    /\ prun' = prun + 1
    /\ pbase' = <<>>
    /\ UNCHANGED <<procVars, ocrVars, countVars, chainVars, fingerVars, lockVars, retryVars, scratchVars>>
    /\ UNCHANGED <<results, parsed, cli, lcfg, lengine, lpc, ltool, lret, gsRun, splitDir,
                   splitRet, pinput, pfinger, resolved>>

(***************************************************************************)
(* The fingerprint of the input: ProcessFile and Extract on inputs whose   *)
(* content changes                                                         *)
(***************************************************************************)
MaxCalls == 3

\* the input files, in one directory and written to one output path
FingerInputs == {"a.pdf", "b.pdf"}

Contents == {"x", "y"}

\* GetFileInfo: the MD5 hash of the content
MD5Hash(c) == IF c = "x" THEN "0cc1" ELSE "9e10"

Fingerprints == {MD5Hash(c) : c \in Contents}

\* the text the extraction yields from content c
TextOf(c) == <<"t", c>>

\* a text on disk, with the content it was extracted from (history)
Entry(text, from) == [text |-> text, from |-> from]

InitFinger ==
    /\ fcontent \in [FingerInputs -> Contents]
    /\ foutput = <<>>
    /\ fmanager = <<>>
    /\ fwork = [h \in Fingerprints |-> <<>>]
    /\ fret = <<>>
    /\ fcalls = 0

\* OCRExtractor.initialize: the manager of the extractor after the call on an
\* input of content c; a manager that exists is kept
initializeFileManager(mgr, c) == IF mgr # <<>> THEN mgr ELSE <<MD5Hash(c)>>

\* OCRExtractor.Extract on an input of content c by an extractor whose manager
\* is mgr: the text kept under the base directory of the manager when there is
\* one, the text extracted from the input otherwise, which is kept there
ExtractWith(mgr, work, c) ==
    LET m == initializeFileManager(mgr, c)
        kept == work[m[1]]
    IN  IF kept # <<>>
        THEN [mgr |-> m, work |-> work, entry |-> kept[1], cached |-> TRUE]
        ELSE [mgr |-> m, work |-> [work EXCEPT ![m[1]] = <<Entry(TextOf(c), c)>>],
              entry |-> Entry(TextOf(c), c), cached |-> FALSE]

\* what a call returned: the text, the content it was extracted from, the
\* content of the input of the call, and whether the text was read from disk
Served(via, e, c, cached) ==
    [via |-> via, text |-> e.text, from |-> e.from, content |-> c, cached |-> cached]

\* ProcessFile on input i with the output path of the earlier calls: the
\* existing output file is loaded, or an extractor of the factory extracts the
\* text and the text is saved at the output path
FingerProcessFile ==
    /\ fcalls < MaxCalls
    /\ \E i \in FingerInputs :
         IF config.SkipExisting /\ foutput # <<>>
         THEN /\ fret' = <<Served("ProcessFile", foutput[1], fcontent[i], TRUE)>>
              /\ UNCHANGED <<foutput, fwork>>
         ELSE LET r == ExtractWith(<<>>, fwork, fcontent[i])
              IN  /\ fret' = <<Served("ProcessFile", r.entry, fcontent[i], r.cached)>>
                  /\ foutput' = <<r.entry>>
                  /\ fwork' = r.work
    /\ fcalls' = fcalls + 1
    /\ UNCHANGED <<fcontent, fmanager>>
    /\ UNCHANGED <<procVars, ocrVars, countVars, chainVars, lockVars, retryVars, scratchVars, engineVars>>

\* Extract on input i by the extractor instance of the earlier calls
FingerExtract ==
    /\ fcalls < MaxCalls
    /\ \E i \in FingerInputs :
         LET r == ExtractWith(fmanager, fwork, fcontent[i])
         IN  /\ fret' = <<Served("Extract", r.entry, fcontent[i], r.cached)>>
             /\ fmanager' = r.mgr
             /\ fwork' = r.work
    /\ fcalls' = fcalls + 1
    /\ UNCHANGED <<fcontent, foutput>>
    /\ UNCHANGED <<procVars, ocrVars, countVars, chainVars, lockVars, retryVars, scratchVars, engineVars>>

\* the content of an input file changes
ChangeInput ==
    /\ fcalls < MaxCalls
    /\ \E i \in FingerInputs :
         \E c \in Contents \ {fcontent[i]} : fcontent' = [fcontent EXCEPT ![i] = c]
    /\ fcalls' = fcalls + 1
    /\ UNCHANGED <<foutput, fmanager, fwork, fret>>
    /\ UNCHANGED <<procVars, ocrVars, countVars, chainVars, lockVars, retryVars, scratchVars, engineVars>>

\* the extractor instance is dropped and a new one is built
NewExtractor ==
    /\ fmanager # <<>>
    /\ fmanager' = <<>>
    /\ UNCHANGED <<fcontent, foutput, fwork, fret, fcalls>>
    /\ UNCHANGED <<procVars, ocrVars, countVars, chainVars, lockVars, retryVars, scratchVars, engineVars>>

(***************************************************************************)
(* The scratch-file manager under concurrent calls: ResourceManager.Cleanup *)
(* from the goroutine of WithContext and from WithCleanup, next to          *)
(* CreateTempFile; FileManager.CleanupTemp locks in the same way            *)
(***************************************************************************)
MaxCreated == 2

Callbacks == {"f1", "f2"}

\* the scratch paths: one listed before the run, the others created meanwhile
ScratchPaths == <<"s0", "s1", "s2", "s3", "s4">>

\* the goroutines: "ctx" waits for the context in WithContext, "run" is inside
\* WithCleanup, "maker" creates scratch files
Cleaners == {"ctx", "run"}

Goroutines == Cleaners \cup {"maker"}

\* a manager whose calls take no lock
TryLockAlways(m) == TRUE

\* rm.mu.Lock() returns: the mutex is free
TryLock(m) == m = "free"

InitLock ==
    /\ mu = "free"
    /\ ctracked \in {<<>>, <<ScratchPaths[1]>>}
    /\ cfns \in {<<>>, <<"f1">>, <<"f1", "f2">>}
    /\ cpc = [g \in Goroutines |-> IF g = "ctx" THEN "wait" ELSE IF g = "run" THEN "fn" ELSE "idle"]
    /\ cancelled = FALSE
    /\ cbefore = <<>>
    /\ cran = [f \in Callbacks |-> 0]
    /\ cremoved = [p \in Range(ScratchPaths) |-> 0]

\* the scratch paths created so far
Created == Cardinality({i \in 2..Len(ScratchPaths) : cremoved[ScratchPaths[i]] > 0
                                                     \/ ScratchPaths[i] \in Range(ctracked)})

\* what is listed now, unless an earlier call of a cleanup recorded it
Before == IF cbefore # <<>> THEN cbefore
          ELSE <<[paths |-> Range(ctracked), fns |-> Range(cfns)]>>

\* the context is cancelled
Cancel ==
    /\ ~cancelled
    /\ cancelled' = TRUE
    /\ UNCHANGED <<mu, ctracked, cfns, cpc, cbefore, cran, cremoved>>
    /\ UNCHANGED <<procVars, ocrVars, countVars, chainVars, fingerVars, retryVars, scratchVars,
                   engineVars>>

\* the goroutine of WithContext gets newCtx.Done() and calls Cleanup
ContextDone ==
    /\ cancelled
    /\ cpc["ctx"] = "wait"
    /\ cpc' = [cpc EXCEPT !["ctx"] = "lock"]
    /\ cbefore' = Before
    /\ UNCHANGED <<mu, ctracked, cfns, cancelled, cran, cremoved>>
    /\ UNCHANGED <<procVars, ocrVars, countVars, chainVars, fingerVars, retryVars, scratchVars,
                   engineVars>>

\* the function given to WithCleanup returns and the deferred Cleanup is called
FnReturns ==
    /\ cpc["run"] = "fn"
    /\ cpc' = [cpc EXCEPT !["run"] = "lock"]
    /\ cbefore' = Before
    /\ UNCHANGED <<mu, ctracked, cfns, cancelled, cran, cremoved>>
    /\ UNCHANGED <<procVars, ocrVars, countVars, chainVars, fingerVars, retryVars, scratchVars,
                   engineVars>>

\* Cleanup takes the mutex
CleanupLock ==
    /\ \E g \in Cleaners :
         /\ cpc[g] = "lock"
         /\ TryLock(mu)
         /\ mu' = g
         /\ cpc' = [cpc EXCEPT ![g] = "sweep"]
    /\ UNCHANGED <<ctracked, cfns, cancelled, cbefore, cran, cremoved>>
    /\ UNCHANGED <<procVars, ocrVars, countVars, chainVars, fingerVars, retryVars, scratchVars,
                   engineVars>>

\* Cleanup runs the callbacks of the list and removes the paths of the lists
CleanupSweep ==
    /\ \E g \in Cleaners :
         /\ cpc[g] = "sweep"
         /\ cpc' = [cpc EXCEPT ![g] = "clear"]
    /\ cran' = [f \in Callbacks |-> IF f \in Range(cfns) THEN cran[f] + 1 ELSE cran[f]]
    /\ cremoved' = [p \in Range(ScratchPaths) |->
                      IF p \in Range(ctracked) THEN cremoved[p] + 1 ELSE cremoved[p]]
    /\ UNCHANGED <<mu, ctracked, cfns, cancelled, cbefore>>
    /\ UNCHANGED <<procVars, ocrVars, countVars, chainVars, fingerVars, retryVars, scratchVars,
                   engineVars>>

\* Cleanup clears the lists and returns; the deferred Unlock runs
CleanupClear ==
    /\ \E g \in Cleaners :
         /\ cpc[g] = "clear"
         /\ cpc' = [cpc EXCEPT ![g] = "done"]
    /\ ctracked' = <<>>
    /\ cfns' = <<>>
    /\ mu' = "free"
    /\ UNCHANGED <<cancelled, cbefore, cran, cremoved>>
    /\ UNCHANGED <<procVars, ocrVars, countVars, chainVars, fingerVars, retryVars, scratchVars,
                   engineVars>>

\* CreateTempFile is called
CreateCalled ==
    /\ cpc["maker"] = "idle"
    /\ Created < MaxCreated
    /\ cpc' = [cpc EXCEPT !["maker"] = "lock"]
    /\ UNCHANGED <<mu, ctracked, cfns, cancelled, cbefore, cran, cremoved>>
    /\ UNCHANGED <<procVars, ocrVars, countVars, chainVars, fingerVars, retryVars, scratchVars,
                   engineVars>>

\* CreateTempFile takes the mutex
CreateLock ==
    /\ cpc["maker"] = "lock"
    /\ TryLock(mu)
    /\ mu' = "maker"
    /\ cpc' = [cpc EXCEPT !["maker"] = "append"]
    /\ UNCHANGED <<ctracked, cfns, cancelled, cbefore, cran, cremoved>>
    /\ UNCHANGED <<procVars, ocrVars, countVars, chainVars, fingerVars, retryVars, scratchVars,
                   engineVars>>

\* CreateTempFile creates the file, lists it and returns; the deferred Unlock runs
CreateAppend ==
    /\ cpc["maker"] = "append"
    /\ ctracked' = Append(ctracked, ScratchPaths[Created + 2])
    /\ mu' = "free"
    /\ cpc' = [cpc EXCEPT !["maker"] = "idle"]
    /\ UNCHANGED <<cfns, cancelled, cbefore, cran, cremoved>>
    /\ UNCHANGED <<procVars, ocrVars, countVars, chainVars, fingerVars, retryVars, scratchVars,
                   engineVars>>

(***************************************************************************)
(* The specifications                                                      *)
(***************************************************************************)
vars == <<procVars, ocrVars, countVars, chainVars, fingerVars, lockVars, retryVars, scratchVars, engineVars>>

\* the values of the variables of a part that does not run
IdleProc ==
    /\ outputPath = ""
    /\ inputFile = "ok"
    /\ outFile = NoOutput
    /\ run = 1
    /\ pc = "idle"
    /\ extractors = <<>>
    /\ loop = LoopInit
    /\ loopRet = <<>>
    /\ returns = <<>>
    /\ invoked = <<>>

IdleOCR ==
    /\ doc = [n |-> 0]
    /\ pagesDir = <<>>
    /\ pageTxt = <<>>
    /\ textFile = <<>>
    /\ orun = 1
    /\ opc = "idle"
    /\ totalPages = 0
    /\ pageNum = 0
    /\ allText = <<>>
    /\ ocrRet = <<>>
    /\ ocrData = <<>>
    /\ textMade = <<>>
    /\ start = <<>>
    /\ hist = <<>>

IdleCount ==
    /\ dir = <<>>
    /\ counted = <<>>

IdleChain == built = <<>>

IdleLock ==
    /\ mu = "free"
    /\ ctracked = <<>>
    /\ cfns = <<>>
    /\ cpc = <<>>
    /\ cancelled = FALSE
    /\ cbefore = <<>>
    /\ cran = <<>>
    /\ cremoved = <<>>

IdleFinger ==
    /\ fcontent = <<>>
    /\ foutput = <<>>
    /\ fmanager = <<>>
    /\ fwork = <<>>
    /\ fret = <<>>
    /\ fcalls = 0

IdleRetry ==
    /\ rexec = ""
    /\ rbudget = 0
    /\ rfn = <<>>
    /\ rret = <<>>
    /\ rcancel = NeverCancelled
    /\ rhooks = <<>>

IdleScratch ==
    /\ mkind = ""
    /\ strat = "none"
    /\ fsys = {}
    /\ tempFiles = <<>>
    /\ tempDirs = <<>>
    /\ cleanupFns = <<>>
    /\ stratFiles = <<>>
    /\ spc = "off"
    /\ fnRet = <<>>
    /\ sret = <<>>
    /\ made = <<>>
    /\ shist = ScratchHistInit

IdlePaths ==
    /\ pinput = <<>>
    /\ pfinger = ""
    /\ pbase = <<>>
    /\ prun = 0
    /\ resolved = {}

IdleSplit ==
    /\ gsRun = <<>>
    /\ splitDir = <<>>
    /\ splitRet = <<>>

IdleEngine ==
    /\ results = <<>>
    /\ parsed = <<>>
    /\ cli = <<>>
    /\ lcfg = <<>>
    /\ lengine = ""
    /\ lpc = "off"
    /\ ltool = <<>>
    /\ lret = <<>>
    /\ IdleSplit
    /\ IdlePaths

Init ==
    /\ InitProc /\ IdleOCR /\ IdleCount /\ IdleChain /\ IdleFinger /\ IdleLock
    /\ IdleRetry /\ IdleScratch /\ IdleEngine

Next ==
    \/ ProcessFile
    \/ AttemptNodewee
    \/ AfterLoopNodewee
    \/ AttemptLocal
    \/ AfterLoopLocal
    \/ ProcessWithResourceManagement
    \/ NextRun

Spec == Init /\ [][Next]_vars

\* the OCR pipeline on its own
InitOCRSpec ==
    /\ gen \in Generations
    /\ config \in OCRConfigs
    /\ IdleProc
    /\ InitOCR
    /\ IdleCount
    /\ IdleChain
    /\ IdleFinger
    /\ IdleLock
    /\ IdleRetry
    /\ IdleScratch
    /\ IdleEngine

NextOCR ==
    \/ OCRStart
    \/ OCRPage
    \/ OCRFinish
    \/ OCRInterrupt
    \/ OCRSplitInterrupt
    \/ OCRNextRun

SpecOCR == InitOCRSpec /\ [][NextOCR]_vars

\* the page counters on their own
InitCountSpec ==
    /\ gen \in Generations
    /\ config \in {c \in OCRConfigs : c.MinTextThreshold = 0 /\ c.SkipExisting
                                /\ c.MaxConcurrency = DefaultMaxConcurrency}
    /\ IdleProc
    /\ IdleOCR
    /\ InitCount
    /\ IdleChain
    /\ IdleFinger
    /\ IdleLock
    /\ IdleRetry
    /\ IdleScratch
    /\ IdleEngine

NextCount ==
    \/ CountPages
    \/ CountExistingPages

SpecCount == InitCountSpec /\ [][NextCount]_vars

\* the extractor factory on its own
InitChainSpec ==
    /\ gen \in Generations
    /\ config \in ChainConfigs
    /\ IdleProc
    /\ IdleOCR
    /\ IdleCount
    /\ InitChain
    /\ IdleFinger
    /\ IdleLock
    /\ IdleRetry
    /\ IdleScratch
    /\ IdleEngine

NextChain == BuildChain

SpecChain == InitChainSpec /\ [][NextChain]_vars

\* the retry executors on their own
InitRetrySpec ==
    /\ gen \in Generations
    /\ config \in {c \in OCRConfigs : c.MinTextThreshold = 0 /\ c.SkipExisting
                                /\ c.MaxConcurrency = DefaultMaxConcurrency}
    /\ IdleProc
    /\ IdleOCR
    /\ IdleCount
    /\ IdleChain
    /\ IdleFinger
    /\ IdleLock
    /\ InitRetry
    /\ IdleScratch
    /\ IdleEngine

NextRetry ==
    \/ CallWithRetry
    \/ CallWithRetrySimple

SpecRetry == InitRetrySpec /\ [][NextRetry]_vars

\* the retry executors under a context
InitCancelSpec ==
    /\ gen \in Generations
    /\ config \in {c \in OCRConfigs : c.MinTextThreshold = 0 /\ c.SkipExisting
                                /\ c.MaxConcurrency = DefaultMaxConcurrency}
    /\ IdleProc
    /\ IdleOCR
    /\ IdleCount
    /\ IdleChain
    /\ IdleFinger
    /\ IdleLock
    /\ InitCancel
    /\ IdleScratch
    /\ IdleEngine

NextCancel ==
    \/ CallWithRetry
    \/ CallWithRetrySimple
    \/ CallWithRetryContext

SpecCancel == InitCancelSpec /\ [][NextCancel]_vars

\* the scratch-file managers on their own
InitScratchSpec ==
    /\ gen \in Generations
    /\ config \in {c \in OCRConfigs : c.MinTextThreshold = 0 /\ c.SkipExisting
                                /\ c.MaxConcurrency = DefaultMaxConcurrency}
    /\ IdleProc
    /\ IdleOCR
    /\ IdleCount
    /\ IdleChain
    /\ IdleFinger
    /\ IdleLock
    /\ IdleRetry
    /\ InitScratch
    /\ IdleEngine

NextScratch ==
    \/ CreateTempFile
    \/ CreateTempDir
    \/ RegisterCleanupFunc
    \/ WithCleanupEnter
    \/ StrategyExtract
    \/ WithCleanupReturn
    \/ ExplicitCleanup

SpecScratch == InitScratchSpec /\ [][NextScratch]_vars

\* the results parser on its own
InitParseSpec ==
    /\ gen \in Generations
    /\ config \in {c \in OCRConfigs : c.MinTextThreshold = 0 /\ c.SkipExisting
                                /\ c.MaxConcurrency = DefaultMaxConcurrency}
    /\ IdleProc
    /\ IdleOCR
    /\ IdleCount
    /\ IdleChain
    /\ IdleFinger
    /\ IdleLock
    /\ IdleRetry
    /\ IdleScratch
    /\ InitParse
    /\ cli = <<>> /\ lcfg = <<>> /\ lengine = "" /\ lpc = "off" /\ ltool = <<>> /\ lret = <<>>
    /\ IdleSplit
    /\ IdlePaths

NextParse == ParseOCRResults

SpecParse == InitParseSpec /\ [][NextParse]_vars

\* the command up to the call of the engine
InitLLMSpec ==
    /\ gen \in Generations
    /\ config \in {c \in OCRConfigs : c.MinTextThreshold = 0 /\ c.SkipExisting
                                /\ c.MaxConcurrency = DefaultMaxConcurrency}
    /\ IdleProc
    /\ IdleOCR
    /\ IdleCount
    /\ IdleChain
    /\ IdleFinger
    /\ IdleLock
    /\ IdleRetry
    /\ IdleScratch
    /\ InitLLM
    /\ results = <<>> /\ parsed = <<>>
    /\ IdleSplit
    /\ IdlePaths

NextLLM ==
    \/ Initialize
    \/ SelectOCREngine
    \/ ExtractTextFromPDF

SpecLLM == InitLLMSpec /\ [][NextLLM]_vars

\* the page splitter on its own
InitSplitSpec ==
    /\ gen \in Generations
    /\ config \in {c \in OCRConfigs : c.MinTextThreshold = 0 /\ c.SkipExisting
                                /\ c.MaxConcurrency = DefaultMaxConcurrency}
    /\ IdleProc
    /\ IdleOCR
    /\ IdleCount
    /\ IdleChain
    /\ IdleFinger
    /\ IdleLock
    /\ IdleRetry
    /\ IdleScratch
    /\ results = <<>> /\ parsed = <<>>
    /\ cli = <<>> /\ lcfg = <<>> /\ lengine = "" /\ lpc = "off" /\ ltool = <<>> /\ lret = <<>>
    /\ InitSplit
    /\ IdlePaths

NextSplit == SplitPDF

SpecSplit == InitSplitSpec /\ [][NextSplit]_vars

\* WithRetry with registered recovery strategies
InitHookSpec ==
    /\ gen \in Generations
    /\ config \in {c \in OCRConfigs : c.MinTextThreshold = 0 /\ c.SkipExisting
                                /\ c.MaxConcurrency = DefaultMaxConcurrency}
    /\ IdleProc
    /\ IdleOCR
    /\ IdleCount
    /\ IdleChain
    /\ IdleFinger
    /\ IdleLock
    /\ IdleScratch
    /\ IdleEngine
    /\ InitHook

NextHook == CallWithRetry

SpecHook == InitHookSpec /\ [][NextHook]_vars

\* the persistent paths on their own
InitPathSpec ==
    /\ gen \in Generations
    /\ config \in {c \in OCRConfigs : c.MinTextThreshold = 0 /\ c.SkipExisting
                                /\ c.MaxConcurrency = DefaultMaxConcurrency}
    /\ IdleProc
    /\ IdleOCR
    /\ IdleCount
    /\ IdleChain
    /\ IdleFinger
    /\ IdleLock
    /\ IdleRetry
    /\ IdleScratch
    /\ results = <<>> /\ parsed = <<>>
    /\ cli = <<>> /\ lcfg = <<>> /\ lengine = "" /\ lpc = "off" /\ ltool = <<>> /\ lret = <<>>
    /\ IdleSplit
    /\ InitPaths

NextPaths ==
    \/ NewManager
    \/ ResolvePath
    \/ NextPathRun

SpecPaths == InitPathSpec /\ [][NextPaths]_vars

\* the caches of the inputs on their own
InitFingerSpec ==
    /\ gen \in Generations
    /\ config \in {c \in OCRConfigs : c.MinTextThreshold = 0 /\ c.MaxConcurrency = 1}
    /\ IdleProc
    /\ IdleOCR
    /\ IdleCount
    /\ IdleChain
    /\ InitFinger
    /\ IdleLock
    /\ IdleRetry
    /\ IdleScratch
    /\ IdleEngine

NextFinger ==
    \/ FingerProcessFile
    \/ FingerExtract
    \/ ChangeInput
    \/ NewExtractor

SpecFinger == InitFingerSpec /\ [][NextFinger]_vars

\* the scratch-file manager under concurrent calls, on its own
InitLockSpec ==
    /\ gen \in Generations
    /\ config \in {c \in OCRConfigs : c.MinTextThreshold = 0 /\ c.SkipExisting
                                /\ c.MaxConcurrency = 1}
    /\ IdleProc
    /\ IdleOCR
    /\ IdleCount
    /\ IdleChain
    /\ IdleFinger
    /\ InitLock
    /\ IdleRetry
    /\ IdleScratch
    /\ IdleEngine

\* the steps of the calls of the manager
ManagerSteps ==
    \/ CleanupLock
    \/ CleanupSweep
    \/ CleanupClear
    \/ CreateLock
    \/ CreateAppend

NextLock ==
    \/ Cancel
    \/ ContextDone
    \/ FnReturns
    \/ CreateCalled
    \/ ManagerSteps

SpecLock == InitLockSpec /\ [][NextLock]_vars

(***************************************************************************)
(* Properties of the file processor                                        *)
(***************************************************************************)
\* a call of Extract succeeded in the sense of the specification: it returned
\* no error and a text not shorter than the threshold
Succeeded(c) == IsNilErr(c.out.err) /\ Len(c.out.text) >= config.MinTextThreshold

\* attemptExtractionWithFallbacks has returned
Returned == Len(loopRet) = 1

\* the names of strategies 1..k of the chain
ChainPrefix(k) == SubSeq(extractors, 1, k)

\* a hard stop applies to a failure of the OCR strategy
ImageFirstPDF == config.Ext = "pdf" /\ config.ContentType = "image"

PinnedEngine == config.OCRStrategy # OCRStrategyInteractive

\* err is, or wraps, the failure the processor recorded for call c
RefersToFailureOf(err, c) ==
    LET e == IF err.Message = <<"all extractors failed for file">> THEN err.Cause[1] ELSE err
    IN  IF ~IsNilErr(c.out.err)
        THEN e.Message = <<"extractor failed", c.name>> /\ e.Cause = <<c.out.err>>
        ELSE e.Type = "validation"

\* C1: the strategies are invoked in chain order and none is invoked after one
\* succeeded; when strategy k is the first to succeed, the result names it as
\* extractorUsed and lists exactly strategies 1..k as attempted; for a PDF in
\* text-first mode whose converter fails and whose OCR succeeds, fallbackUsed is
\* true and the attempted list is [calibre, ocr].
C1_FirstSuccessWins ==
    /\ \A j \in 1..Len(invoked) :
          /\ j <= Len(extractors) /\ invoked[j].name = extractors[j]
          /\ j < Len(invoked) => ~Succeeded(invoked[j])
    /\ \A k \in 1..Len(invoked) :
          (Returned /\ Succeeded(invoked[k])) =>
              /\ IsNilErr(loopRet[1].err)
              /\ ~loopRet[1].result.IsNil
              /\ loopRet[1].result.ExtractorUsed = extractors[k]
              /\ loopRet[1].result.AttemptedExtractors = ChainPrefix(k)
              /\ (config.Ext = "pdf" /\ config.ContentType = "text" /\ k = 2) =>
                    /\ loopRet[1].result.FallbackUsed
                    /\ loopRet[1].result.AttemptedExtractors = <<"calibre", "ocr">>

\* C2: when the OCR strategy fails under a hard-stop condition, no further
\* strategy is invoked and an error is returned; with a pinned engine the
\* returned attempted list is [ocr].
C2_HardStop ==
    \A j \in 1..Len(invoked) :
        (invoked[j].name = "ocr" /\ ~Succeeded(invoked[j]) /\ (ImageFirstPDF \/ PinnedEngine)) =>
            /\ Len(invoked) = j
            /\ Returned =>
                  /\ ~IsNilErr(loopRet[1].err)
                  /\ PinnedEngine =>
                        /\ ~loopRet[1].result.IsNil
                        /\ loopRet[1].result.AttemptedExtractors = <<"ocr">>

\* C3: a strategy that returned a text shorter than the threshold is never the
\* extractorUsed of a successful result and, when it is not the last of the
\* chain, the next strategy is invoked before the processor returns; a strategy
\* that returned a text of at least the threshold is the extractorUsed of a
\* successful result that carries its text.
C3_ShortTextIsFailure ==
    \A j \in 1..Len(invoked) :
        Returned =>
            /\ (IsNilErr(invoked[j].out.err) /\ Len(invoked[j].out.text) < config.MinTextThreshold) =>
                  /\ loopRet[1].result.ExtractorUsed # invoked[j].name
                  /\ j < Len(extractors) => Len(invoked) > j
            /\ Succeeded(invoked[j]) =>
                  /\ IsNilErr(loopRet[1].err)
                  /\ loopRet[1].result.ExtractorUsed = invoked[j].name
                  /\ loopRet[1].result.Text = invoked[j].out.text

\* C4: when every strategy of the chain was invoked and failed, the processor
\* returns an error that refers to the failure of the last strategy, and a
\* result whose attempted list is the whole chain.
C4_AllFailed ==
    (/\ Returned
     /\ Len(invoked) = Len(extractors)
     /\ \A j \in 1..Len(invoked) : ~Succeeded(invoked[j])) =>
        /\ ~IsNilErr(loopRet[1].err)
        /\ RefersToFailureOf(loopRet[1].err, invoked[Len(invoked)])
        /\ ~loopRet[1].result.IsNil
        /\ loopRet[1].result.ExtractorUsed = ""
        /\ loopRet[1].result.AttemptedExtractors = extractors

\* the second invocation has returned, and the first one returned a text
SecondRunDone == pc = "done" /\ Len(returns) = 2 /\ IsNilErr(returns[1].err)

\* C5: with skip-existing enabled, an invocation that follows one that returned
\* a text returns the same text, reports the cache sentinel as extractorUsed and
\* invokes no strategy.
C5_Idempotent ==
    (SecondRunDone /\ config.SkipExisting) =>
        /\ IsNilErr(returns[2].err)
        /\ returns[2].result.Text = returns[1].result.Text
        /\ returns[2].result.ExtractorUsed = "cached"
        /\ invoked = <<>>

\* a first invocation that extracted the text, followed by one served from the cache
C5_Witness ==
    /\ SecondRunDone
    /\ config.SkipExisting
    /\ returns[1].result.ExtractorUsed \in {"calibre", "ocr", "html"}
    /\ Len(returns[1].result.Text) >= DefaultMinTextThreshold
    /\ returns[2].result.ExtractorUsed = "cached"

(***************************************************************************)
(* Properties of ProcessFile as a whole                                    *)
(***************************************************************************)
\* a check of ProcessFile does not pass: the input is not valid, or skip-existing
\* is on and there is something at the output path
ChecksFail == inputFile = "missing" \/ (config.SkipExisting /\ outFile.exists)

\* C19: when ProcessFile is called and the input validation fails, or
\* skip-existing is on and the output already exists, ProcessFile returns at
\* once: no chain is built and no strategy is invoked.
C19_ChecksBeforeOrchestrator ==
    [][(pc = "idle" /\ pc' # "idle" /\ ChecksFail) =>
          (pc' = "done" /\ extractors' = <<>> /\ invoked' = <<>>)]_vars

\* some strategy of the current invocation returned a usable text
StrategySucceeded == \E k \in 1..Len(invoked) : Succeeded(invoked[k])

\* C20: the output path changes only when ProcessFile returns success after a
\* strategy succeeded, and it then holds the whole text returned; a failing
\* ProcessFile returns one error, no result, and leaves the output path as it was.
C20_NoPartialOutput ==
    [][/\ (outFile' # outFile) =>
             /\ Len(returns') = Len(returns) + 1
             /\ IsNilErr(returns'[Len(returns')].err)
             /\ StrategySucceeded
             /\ outFile' = OutputWith(returns'[Len(returns')].result.Text)
       /\ (Len(returns') = Len(returns) + 1 /\ ~IsNilErr(returns'[Len(returns')].err)) =>
             returns'[Len(returns')].result = NilResult]_vars

(***************************************************************************)
(* Properties of the OCR pipeline                                          *)
(***************************************************************************)
\* the current run of Extract has returned after it went through the page loop
PagesDone == opc = "done" /\ start.entered

\* the pages that had a text file when the current run started
CachedAtStart == {p \in 1..doc.n : start.pageTxt[p] # <<>>}

\* the aggregate of pages p..d.n added to text when no page has a text file
\* and the OCR data file is data
RECURSIVE aggregateFrom(_, _, _, _)
aggregateFrom(d, p, text, data) ==
    IF p > d.n THEN text
    ELSE LET r == pageStep(ThroughEngine(d, data), p, <<>>, "ok")
         IN  aggregateFrom(d, p + 1, appendPage(text, p, r), writeOCRData(data, d, p, r))

\* what a run over all the pages returns when the working directory holds no
\* text of the document
FromScratch == finish(config, aggregateFrom(doc, 1, <<>>, <<>>))

\* pages 1..K, for some K, are the pages that had a text file when the current
\* run started
PrefixCached == \E K \in 0..doc.n : CachedAtStart = 1..K

\* the page loop of the current run goes over all the pages of the document
SplitInFull == totalPages = doc.n

\* C6: a run that goes through the page loop of a document split into its N
\* pages, of which pages 1..K had a text file when the run started, invokes the
\* engine for no page in 1..K, and returns what a run from scratch over all the
\* pages of the document returns.
C6_Resume ==
    (PagesDone /\ SplitInFull /\ PrefixCached) =>
        /\ \A i \in 1..Len(hist.engine) : hist.engine[i] \notin CachedAtStart
        /\ ocrRet[1] = FromScratch

\* a run that found the document split and page 1 of 2 done, ran the engine on
\* page 2 only and returned a text
C6_Witness ==
    /\ PagesDone
    /\ doc.n = MaxPages
    /\ countPages(start.pagesDir) = doc.n
    /\ CachedAtStart = 1..(doc.n - 1)
    /\ hist.engine = <<doc.n>>
    /\ hist.splits = 0
    /\ IsNilErr(ocrRet[1].err)
    /\ Len(hist.good) = doc.n

\* C7: a run that finds the final text file returns its content and splits no
\* document, rasterizes no page, invokes no engine and writes no file.
C7_CachedFastPath ==
    (opc = "done" /\ start.textFile # <<>>) =>
        /\ ocrRet[1] = Out(start.textFile[1], NoErr)
        /\ hist.splits = 0
        /\ hist.rasters = <<>>
        /\ hist.engine = <<>>
        /\ hist.writes = <<>>

\* the pages the current run went through are 1..totalPages, in order, every
\* page after a failed one included, and the aggregate holds the text of every
\* page that yielded one
PagesTolerated ==
    /\ hist.visited = [p \in 1..totalPages |-> p]
    /\ \A i \in 1..Len(hist.failed) :
          \A p \in (hist.failed[i] + 1)..totalPages : \E j \in 1..Len(hist.visited) : hist.visited[j] = p
    /\ \A i \in 1..Len(hist.good) : Contains(allText, hist.good[i])
    /\ IsNilErr(ocrRet[1].err) => \A i \in 1..Len(hist.good) : Contains(ocrRet[1].text, hist.good[i])

\* C8 as stated: a failed page does not end the page loop, the pages that
\* yielded a text are in the aggregate, and the run fails only when the
\* aggregate is empty.
C8_FailsOnlyWhenEmpty ==
    PagesDone =>
        /\ PagesTolerated
        /\ ~IsNilErr(ocrRet[1].err) => TrimSpace(allText) = <<>>

\* C8: a failed page does not end the page loop, the pages that yielded a text
\* are in the aggregate, and the run fails only when the aggregate is empty or
\* shorter than the minimum threshold.
C8_FailsOnlyWhenEmptyOrShort ==
    PagesDone =>
        /\ PagesTolerated
        /\ ~IsNilErr(ocrRet[1].err) =>
              \/ TrimSpace(allText) = <<>>
              \/ Len(TrimSpace(allText)) < config.MinTextThreshold

\* page 1 failed in the engine, page 2 yielded its text and the run returned it
C8_Witness ==
    /\ PagesDone
    /\ doc.n = MaxPages
    /\ hist.failed = <<1>>
    /\ hist.engine = [p \in 1..doc.n |-> p]
    /\ Len(hist.good) = doc.n - 1
    /\ IsNilErr(ocrRet[1].err)
    /\ Contains(ocrRet[1].text, <<PageLetters[doc.n]>>)

\* C9: when the engine returns the empty text, and no error, for every page, the
\* run fails with an OCR error and returns no text, whatever the threshold.
C9_EmptyAggregateRejected ==
    (/\ PagesDone
     /\ \A p \in 1..doc.n : doc.out[p] = Out(<<>>, NoErr)
     /\ doc.direct \/ doc.rasterOK) =>
        /\ ~IsNilErr(ocrRet[1].err)
        /\ ocrRet[1].err.Type = "ocr"
        /\ ocrRet[1].text = <<>>

(***************************************************************************)
(* Properties of the page counters                                         *)
(***************************************************************************)
\* the largest n such that the page files 1..n are all present
ContiguousPages(pd) ==
    CHOOSE n \in 0..Len(pd) :
        /\ \A i \in 1..n : pd[i] # "missing"
        /\ n < Len(pd) => pd[n + 1] = "missing"

\* C10: the count of a pages directory is the largest n such that the page
\* files 1..n are all present.
C10_ContiguousCount == counted # <<>> => counted[1] = ContiguousPages(dir)

(***************************************************************************)
(* Properties of the extractor factory                                     *)
(***************************************************************************)
\* the factory has returned for the file
Built == built # <<>>

\* C11: for a PDF the chain is [calibre, ocr] in text-first mode and [ocr] in
\* image-first mode.
C11_PDFChain ==
    (Built /\ ToLower(config.Ext) = "pdf") =>
        /\ IsNilErr(built[1].err)
        /\ config.ContentType = "text" => built[1].extractors = <<"calibre", "ocr">>
        /\ config.ContentType = "image" => built[1].extractors = <<"ocr">>

\* the chain of a text-first PDF was built
C11_Witness ==
    /\ Built
    /\ config.Ext = "pdf"
    /\ config.ContentType = "text"
    /\ built[1].extractors = <<"calibre", "ocr">>

\* C12: for every extension of a plain-text or structured-text file the chain
\* is [text].
C12_TextChain ==
    (Built /\ ToLower(config.Ext) \in TextExtensions) =>
        /\ IsNilErr(built[1].err)
        /\ built[1].extractors = <<"text">>

\* the row of the chain table for a file that is neither PDF nor text
TableRow(ext) ==
    IF ext \in HTMLExtensions THEN <<"html", "calibre">>
    ELSE IF ext \in EbookExtensions THEN <<"ebook">>
    ELSE IF ext \in ImageExtensions THEN <<"ocr">>
    ELSE <<"ocr", "calibre">>

\* C13: for every file that is neither PDF nor text the chain is the row of the
\* table, and the factory returns a chain that is not empty or an error.
C13_OtherChains ==
    Built =>
        /\ (ToLower(config.Ext) \notin TextExtensions \cup {"pdf"}) =>
              built[1].extractors = TableRow(ToLower(config.Ext))
        /\ \/ IsNilErr(built[1].err) /\ built[1].extractors # <<>>
           \/ ~IsNilErr(built[1].err) /\ built[1].extractors = <<>>

(***************************************************************************)
(* Properties of the retry executors                                       *)
(***************************************************************************)
\* the executor has returned
Retried == rret # <<>>

\* C14: when the first call fails with a validation, permission or not-found
\* error, the executor makes no further call and returns that error.
C14_NoRetryOfPermanent ==
    (/\ Retried
     /\ ~IsNilErr(rfn[1])
     /\ GetErrorType(rfn[1]) \in {"validation", "permission", "not_found"}) =>
        /\ rret[1].calls = 1
        /\ rret[1].err = rfn[1]

\* C15: when every call the budget allows fails with a timeout, I/O or network
\* error, WithRetry makes exactly maxAttempts calls and returns the last error
\* wrapped with the number of attempts.
C15_RetryUntilExhausted ==
    (/\ Retried
     /\ rexec = "WithRetry"
     /\ \A a \in 1..rbudget :
           ~IsNilErr(rfn[a]) /\ GetErrorType(rfn[a]) \in {"timeout", "io", "network"}) =>
        /\ rret[1].calls = rbudget
        /\ rret[1].err.Message = <<"operation failed after attempts", rbudget>>
        /\ rret[1].err.Cause = <<rfn[rbudget]>>

\* the calls the executor makes when the context is never cancelled
CallsUncancelled ==
    IF rexec = "WithRetry" THEN WithRetry(rfn, rbudget).calls
    ELSE WithRetrySimple(rfn, rbudget).calls

\* the executor is still running when the context is cancelled
CancelledInFlight ==
    /\ rcancel.phase # "never"
    /\ IF rcancel.phase = "call" THEN CallsUncancelled >= rcancel.at
       ELSE CallsUncancelled > rcancel.at

\* the error is, or wraps, ctx.Err()
IsCancellation(e) == e = ContextCanceled \/ e.Cause = <<ContextCanceled>>

\* C21: when the context is cancelled while the executor runs, no call of the
\* operation is started afterwards, no pause is waited out afterwards, and the
\* executor returns a cancellation error.
C21_CancelAborts ==
    (Retried /\ CancelledInFlight) =>
        /\ rret[1].calls <= rcancel.at
        /\ rret[1].sleeps < rcancel.at \/ rret[1].sleeps = 0
        /\ IsCancellation(rret[1].err)

(***************************************************************************)
(* Properties of the scratch-file managers                                 *)
(***************************************************************************)
\* WithCleanup has returned
ScopeClosed == spc = "done" /\ sret # <<>>

\* C16: WithCleanup runs the cleanup after the function on every path (the lists
\* of the manager are empty and every listed path whose removal did not fail is
\* gone) and returns exactly what the function returned, whatever the cleanup
\* reported.
C16_ScopedCleanup ==
    ScopeClosed =>
        /\ sret[1] = fnRet[1]
        /\ shist.cleanups = 1
        /\ tempFiles = <<>> /\ tempDirs = <<>> /\ cleanupFns = <<>>
        /\ \A p \in shist.tracked \ shist.stuck : p \notin fsys

\* the cleanup failed although the function succeeded, and paths were removed
C16_Witness ==
    /\ ScopeClosed
    /\ IsNilErr(fnRet[1])
    /\ ~IsNilErr(shist.cleanupErr)
    /\ shist.tracked \ shist.stuck # {}

\* the paths that lie in the ephemeral namespace: what the managers list
Scratch == Range(tempFiles) \cup Range(tempDirs) \cup Range(stratFiles) \cup Range(made)

C18_ScratchReclaimed ==
    (ScopeClosed /\ ~shist.removeFailed) => Range(made) \cap fsys = {}

(***************************************************************************)
(* Properties of the engines                                               *)
(***************************************************************************)
RECURSIVE JoinLines(_)
JoinLines(texts) ==
    IF texts = <<>> THEN <<>>
    ELSE IF Len(texts) = 1 THEN Head(texts)
    ELSE Head(texts) \o <<"\n">> \o JoinLines(Tail(texts))

\* the files of results.json in the order they are written in
FileOrder == [i \in 1..Len(results) |-> i]

\* C22: parsing a results file yields the text fields of its text lines joined
\* by newlines, files, pages and lines in the order of the file, and nothing else.
C22_ParsedText ==
    parsed # <<>> =>
        /\ IsNilErr(parsed[1].err)
        /\ parsed[1].text = JoinLines(TextLines(results, FileOrder))

\* C23: when the AI-prompt engine is the selected one and no template is
\* configured, the command ends with an error and the tool was never started.
C23_TemplateMandatory ==
    (lpc = "done" /\ lengine = OCRStrategyLLMCaller /\ lcfg.LLMTemplate = "") =>
        /\ ltool = <<>>
        /\ lret # <<>> /\ ~IsNilErr(lret[1])

(***************************************************************************)
(* Properties of the result of the orchestrator                            *)
(***************************************************************************)
\* the orchestrator has returned an ExtractionResult
ResultReturned == loopRet # <<>> /\ loopRet[1].result # NilResult

\* C24: every ExtractionResult the orchestrator returns, successful or failed,
\* has fallbackUsed set exactly when more than one strategy was attempted.
C24_FallbackFlag ==
    ResultReturned =>
        (loopRet[1].result.FallbackUsed <=> Len(loopRet[1].result.AttemptedExtractors) > 1)

(***************************************************************************)
(* Properties of the page loop                                             *)
(***************************************************************************)
\* the engine calls in progress after the first k events of the run
InProgress(k) ==
    Cardinality({i \in 1..k : hist.events[i].what = "start"})
        - Cardinality({i \in 1..k : hist.events[i].what = "end"})

Squeeze(t) == SelectSeq(t, LAMBDA c : c \notin Whitespace)

\* the engine yields a text for page p
Extractable(p) == IsNilErr(doc.out[p].err) /\ (doc.direct \/ doc.rasterOK)

\* the pages whose text the current run has: from its text file or from the engine
Available == {p \in 1..doc.n : p \in CachedAtStart \/ Extractable(p)}

\* the available pages with a text that is more than white space
Solid == {p \in Available : TrimSpace(doc.out[p].text) # <<>>}

\* the available pages with a text of white space only
Blank == {p \in Available : doc.out[p].text # <<>> /\ TrimSpace(doc.out[p].text) = <<>>}

\* the marker and the text of every page of S from page p on, in ascending order
RECURSIVE MarkedPages(_, _)
MarkedPages(S, p) ==
    IF p > doc.n THEN <<>>
    ELSE (IF p \in S THEN PageMarker(p) \o doc.out[p].text ELSE <<>>) \o MarkedPages(S, p + 1)

\* C26: the aggregate a run returns is, white space between the parts aside, the
\* texts of the pages that have a text, in ascending page order, each once and
\* each after the marker of its page, from the text file or from the engine
\* alike, and it has no white space around it.
C26_Aggregate ==
    (PagesDone /\ IsNilErr(ocrRet[1].err)) =>
        /\ \E S \in SUBSET (Solid \cup Blank) :
              /\ Solid \subseteq S
              /\ Squeeze(ocrRet[1].text) = Squeeze(MarkedPages(S, 1))
        /\ ocrRet[1].text = TrimSpace(ocrRet[1].text)

\* the elements of a sequence
Elements(q) == {q[i] : i \in 1..Len(q)}

\* the pages the current run has extracted successfully so far
ExtractedNow == Elements(hist.engine) \ Elements(hist.failed)

\* the pages that have a text file
OnDisk == {p \in 1..MaxPages : pageTxt[p] # <<>>}

\* the page text files the current run has written, in order
PageWrites == SelectSeq(hist.writes, LAMBDA p : p > 0)

\* C27: in the page loop and after it, the text file of a page is written only
\* when the engine has succeeded on that page, and before the loop goes to the
\* next page; a page that had a text file is neither extracted nor written
\* again and no page is written twice; the pages with a text file are those
\* that had one when the run started and those extracted successfully since.
C27_WriteOnceOnSuccess ==
    opc \in {"pages", "done"} =>
        /\ Elements(PageWrites) \subseteq ExtractedNow
        /\ \A i, j \in 1..Len(PageWrites) : i < j => PageWrites[i] < PageWrites[j]
        /\ Elements(hist.engine) \cap CachedAtStart = {}
        /\ Elements(PageWrites) \cap CachedAtStart = {}
        /\ \A p \in CachedAtStart : pageTxt[p] = start.pageTxt[p]
        /\ OnDisk = CachedAtStart \cup ExtractedNow

(***************************************************************************)
(* Properties of the final text file                                       *)
(***************************************************************************)
\* C28: when a run has returned a text, the final text file holds exactly that
\* text; a run that has failed has written no final text file.
C28_FinalCache ==
    opc = "done" =>
        /\ IsNilErr(ocrRet[1].err) => textFile = <<ocrRet[1].text>>
        /\ ~IsNilErr(ocrRet[1].err) =>
              /\ textFile = start.textFile
              /\ 0 \notin Elements(hist.writes)

(***************************************************************************)
(* Properties of the page step                                             *)
(***************************************************************************)
\* the pages the current run went through that had no text file but a page file
Uncached == {p \in Elements(hist.visited) : p \notin CachedAtStart /\ PagePDF(pagesDir, p) # "missing"}

SplitterRan ==
    /\ splitRet # <<>>
    /\ gsRun.found
    /\ existingPageCount(splitDir) = 0

\* the page files the splitter produced, as the pipeline counts them
Produced == existingPageCount(gsRun.produced)

\* C30: a splitter run that exits with a non-zero status and a message that the
\* page range exceeds the page count is tolerated: its page files are counted
\* and the split succeeds; a non-zero exit with any other message fails the
\* split; a split that yields no page fails with a validation error.
C30_SplitterExit ==
    SplitterRan =>
        /\ (/\ gsRun.exit # 0
            /\ Contains(gsRun.message, <<"exceeds page count">>)
            /\ Produced > 0) =>
              /\ IsNilErr(splitRet[1].err)
              /\ splitRet[1].count = Produced
        /\ (/\ gsRun.exit # 0
            /\ ~Contains(gsRun.message, <<"exceeds page count">>)
            /\ ~Contains(gsRun.message, <<"Invalid page">>)) => ~IsNilErr(splitRet[1].err)
        /\ (/\ gsRun.exit = 0 \/ Contains(gsRun.message, <<"exceeds page count">>)
            /\ Produced = 0) => splitRet[1].err.Type = "validation"

(***************************************************************************)
(* Properties of the attempt budget                                        *)
(***************************************************************************)
\* the attempts the executor may make: maxAttempts of WithRetry, the first
\* attempt and maxRetries retries of SimpleErrorHandler
AttemptBudget == IF rexec = "WithRetry" THEN rbudget ELSE rbudget + 1

FailedWithHook(a) == ~IsNilErr(rfn[a]) /\ rhooks[GetErrorType(rfn[a])] # "none"

\* C32: the strategy registered for an error type runs after every call that
\* failed with that type and was followed by another call; when the strategy
\* returns success, no other call follows.
C32_HookSuppressesRetry ==
    (Retried /\ rexec = "WithRetry" /\ rcancel = NeverCancelled) =>
        /\ \A a \in 1..(rret[1].calls - 1) :
              FailedWithHook(a) => a \in {rret[1].hooks[i] : i \in 1..Len(rret[1].hooks)}
        /\ \A i \in 1..Len(rret[1].hooks) :
              rhooks[GetErrorType(rfn[rret[1].hooks[i]])] = "ok" =>
                  rret[1].calls = rret[1].hooks[i]

OwnOutput(k) ==
    IF gen = "nodewee" THEN PageMarker(k) \o TrimSpace(doc.out[k].text) ELSE doc.out[k].text

\* the pages whose text file the current run wrote
PagesRecorded == {hist.writes[i] : i \in 1..Len(hist.writes)} \ {0}

\* C34: the engine-level cache never changes the result of the pipeline: the
\* text recorded for page k is the output of the engine for the file of page k,
\* whether or not the engine-level cache holds an entry, and a result cached
\* while one page was processed is never returned for another page.
C34_EngineCacheTransparent ==
    opc \in {"pages", "done"} =>
        \A k \in PagesRecorded : pageTxt[k] = <<OwnOutput(k)>>


(***************************************************************************)
(* Properties of a split that was interrupted                              *)
(***************************************************************************)
\* the pages the current run went through
PagesProcessed == {hist.visited[i] : i \in 1..Len(hist.visited)}

\* C35: a split that was interrupted after it wrote only some of the page
\* files is never taken for a complete split: every run that completes
\* successfully has processed all the pages of the document.
C35_AllPagesProcessed ==
    (PagesDone /\ IsNilErr(ocrRet[1].err)) => PagesProcessed = 1..doc.n


(***************************************************************************)
(* Properties of the text served from the final text file                  *)
(***************************************************************************)
\* the current run has returned the content of a final text file that an
\* earlier run of the pipeline wrote
ServedFromCache ==
    /\ opc = "done"
    /\ ~start.entered
    /\ IsNilErr(ocrRet[1].err)
    /\ checkCache(config, start.textFile) # <<>>
    /\ textMade # <<>>

\* C36: the text served from the document-level cache is always the aggregate
\* of all the pages of the document: a run in which a page failed and was
\* skipped leaves no final text file that later runs return instead of
\* attempting the missing pages again.
C36_CacheOfAllPages ==
    ServedFromCache =>
        /\ textMade[1].pages = doc.n
        /\ textMade[1].failed = <<>>


(***************************************************************************)
(* Properties of the fingerprint                                           *)
(***************************************************************************)
\* C37: a result served from cache was produced from content with the
\* fingerprint of the current input: neither a change of the content of the
\* input under the same output path nor a second input given to the same
\* processor and extractor ever gets text extracted from other content.
C37_CacheOfSameFingerprint ==
    (fret # <<>> /\ fret[1].cached) => MD5Hash(fret[1].from) = MD5Hash(fret[1].content)


(***************************************************************************)
(* Properties of the results of ProcessFile                                *)
(***************************************************************************)
\* C38: every successful result ProcessFile returns, one loaded from the
\* output file of an earlier invocation included, carries a text of at least
\* the configured minimum length, the name of an extractor and no error.
C38_SuccessfulResult ==
    \A k \in 1..Len(returns) :
        IsNilErr(returns[k].err) =>
            /\ ~returns[k].result.IsNil
            /\ Len(returns[k].result.Text) >= config.MinTextThreshold
            /\ returns[k].result.ExtractorUsed # ""
            /\ returns[k].result.Error = <<>>


(***************************************************************************)
(* Properties of concurrent cleanups                                       *)
(***************************************************************************)
\* every cleanup that was called has returned
CleanupsDone == \A g \in Cleaners : cpc[g] = "done"

\* a goroutine is inside a call of the manager
InCall == \E g \in Goroutines : cpc[g] \in {"lock", "sweep", "clear", "append"}

\* C39: when the cleanup triggered by the cancellation of the context runs
\* next to the scoped cleanup at the end of the run, or next to the creation of
\* scratch files, every registered callback runs exactly once, every scratch
\* path listed before the cleanups began is removed exactly once, and the
\* manager never deadlocks.
C39_ConcurrentCleanup ==
    /\ \A f \in Callbacks : cran[f] <= 1
    /\ \A p \in Range(ScratchPaths) : cremoved[p] <= 1
    /\ (\E g \in Cleaners : cpc[g] = "done") =>
          /\ \A f \in cbefore[1].fns : cran[f] = 1
          /\ \A p \in cbefore[1].paths : cremoved[p] = 1
    /\ InCall => ENABLED ManagerSteps

\* the context was cancelled and both cleanups have returned; two callbacks and
\* a scratch path were listed before the first was called, and the scratch
\* files created meanwhile were removed as well
C39_Witness ==
    /\ CleanupsDone
    /\ cancelled
    /\ cbefore[1].fns = Callbacks
    /\ cbefore[1].paths # {}
    /\ \A i \in 1..(MaxCreated + 1) : cremoved[ScratchPaths[i]] = 1

====
